---- MODULE Spec2Model ----
(***************************************************************************)
(* A model of the drawer editor's schema layer (validator, builder,        *)
(* transformer), worklet loader and render engine.  Every subsystem has    *)
(* its own specification over the shared variable tuple `vars`; the        *)
(* variables of the other subsystems stay at their initial values.         *)
(***************************************************************************)
EXTENDS Integers, Sequences, FiniteSets, TLC

VARIABLES
  built,     \* ElementNode trees returned by ElementBuilder.buildNode so far
  tb,        \* ElementTreeBuilder.root (NullNode before the constructor ran)
  nextId,    \* counter behind generateId(): the next unused element id
  src,       \* the tree last handed to nodeToFlat
  flat,      \* result of SchemaTransformer.nodeToFlat(src)
  rebuilt,   \* result of SchemaTransformer.flatToTree(flat, src.id)
  elem,      \* the ElementData handed to the SchemaValidator functions
  elem0,     \* elem as it was when it was handed over
  vres,      \* last ValidationResult returned (or the exception thrown)
  san,       \* last record returned by sanitizeElement
  san2,      \* sanitizeElement applied to san
  currentProject,     \* element store: the ProjectConfig or Null
  elements,           \* element store: id -> ElementData
  rootElementId,      \* element store: id or NoId
  selectedElementId,  \* element store: id or NoId
  draggingElementId,  \* element store: id or NoId
  hoveredElementId,   \* element store: id or NoId
  history,            \* element store: the history records
  historyIndex,       \* element store: index into history, from 0; -1 if none
  outcome,   \* what the last element store action returned or threw
  isWorkletSupported, \* worklet registry: 'paintWorklet' in CSS
  configs,            \* worklet registry: type -> WorkletConfig
  status,             \* worklet registry: type -> WorkletStatus
  loadedWorklets,     \* worklet registry: the set of loaded types
  calls,      \* per task: the frames of its pending loadWorklet(s) call
  workletLog, \* per task: events, addModule calls, calls and settlements
  promise,    \* per task: how the promise of its last call settled
  request,    \* per task: its last call and the status map it started from
  renderEngineInstance,  \* render module: the shared RenderEngine or Null
  rendered,   \* what the last call of the render API got and gave
  boundary,     \* ErrorBoundary: this.state
  boundaryProps, \* ErrorBoundary: this.props (fallback, onError)
  view,         \* ErrorBoundary: what render() returned the last time
  caught,       \* ErrorBoundary: the errors React handed to the boundary
  onErrorCalls, \* ErrorBoundary: the arguments of the props.onError calls
  hex,        \* color utilities: the string last handed to hexToRgb
  rgb         \* color utilities: what hexToRgb returned or threw

treeVars == <<built, tb, nextId, src, flat, rebuilt>>
schemaVars == <<elem, elem0, vres, san, san2>>

storeVars ==
  <<currentProject, elements, rootElementId, selectedElementId,
    draggingElementId, hoveredElementId, history, historyIndex, outcome>>

workletVars ==
  <<isWorkletSupported, configs, status, loadedWorklets, calls, workletLog,
    promise, request>>

renderVars == <<renderEngineInstance, rendered>>

boundaryVars == <<boundary, boundaryProps, view, caught, onErrorCalls>>

colorVars == <<hex, rgb>>

vars ==
  <<built, tb, nextId, src, flat, rebuilt, elem, elem0, vres, san, san2,
    currentProject, elements, rootElementId, selectedElementId,
    draggingElementId, hoveredElementId, history, historyIndex, outcome,
    isWorkletSupported, configs, status, loadedWorklets, calls, workletLog,
    promise, request, renderEngineInstance, rendered, boundary,
    boundaryProps, view,
    caught, onErrorCalls, hex, rgb>>

\* what the actions of one subsystem leave alone
notTree ==
  <<schemaVars, storeVars, workletVars, renderVars, boundaryVars, colorVars>>
notSchema ==
  <<treeVars, storeVars, workletVars, renderVars, boundaryVars, colorVars>>
notStore ==
  <<treeVars, schemaVars, workletVars, renderVars, boundaryVars, colorVars>>
notWorklet ==
  <<treeVars, schemaVars, storeVars, renderVars, boundaryVars, colorVars>>
notRender ==
  <<treeVars, schemaVars, storeVars, workletVars, boundaryVars, colorVars>>
notBoundary ==
  <<treeVars, schemaVars, storeVars, workletVars, renderVars, colorVars>>
notColor ==
  <<treeVars, schemaVars, storeVars, workletVars, renderVars, boundaryVars>>

(***************************************************************************)
(* Bounds                                                                  *)
(***************************************************************************)
MaxNodes == 4        \* element ids handed out by generateId in one run
MaxChildren == 2     \* children passed to one buildNode(children) call
MaxHistoryLen == 3   \* history records the store model lets accumulate

(***************************************************************************)
(* Generic helpers                                                         *)
(***************************************************************************)
Range(s) == {s[i] : i \in DOMAIN s}

RECURSIVE Concat(_)
Concat(ss) == IF ss = <<>> THEN <<>> ELSE Head(ss) \o Concat(Tail(ss))

\* all sequences of distinct members of S of length 0..n
DistinctSeqs(S, n) ==
  {s \in UNION {[1..k -> S] : k \in 0..n} :
     \A i, j \in DOMAIN s : i # j => s[i] # s[j]}

\* optional fields: an absent (undefined) field and a present one
Absent == [def |-> FALSE]
Some(v) == [def |-> TRUE, v |-> v]
OrElse(opt, dflt) == IF opt.def THEN opt.v ELSE dflt

(***************************************************************************)
(* ElementNode / ElementData, restricted to the tree-relevant fields       *)
(***************************************************************************)
NullNode == [isNull |-> TRUE]

\* ElementData: a node without its `children`
ElementDataOf(node) ==
  [id |-> node.id, parentId |-> node.parentId, childrenIds |-> node.childrenIds]

\* ElementBuilder.build() + buildNode(children): { ...element, children: children || [] }
\* `ids` is what the builder's setChildrenIds/addChildId calls left in
\* element.childrenIds (Absent when none was made), `parent` its parentId.
buildNode(id, parent, ids, children) ==
  [id |-> id, parentId |-> parent, childrenIds |-> ids, children |-> children]

RECURSIVE Preorder(_)
\* the order in which nodeToFlat's traverse() visits the nodes
Preorder(node) ==
  <<node>> \o Concat([i \in DOMAIN node.children |-> Preorder(node.children[i])])

NodeIds(node) == {n.id : n \in Range(Preorder(node))}

DistinctIds(node) == Cardinality(NodeIds(node)) = Len(Preorder(node))

\* SchemaTransformer.nodeToFlat: result[current.id] = elementData, in visit
\* order, so the last visit of an id wins
nodeToFlat(node) ==
  LET visits == Preorder(node)
      last(id) == CHOOSE i \in DOMAIN visits :
                    /\ visits[i].id = id
                    /\ \A j \in DOMAIN visits : visits[j].id = id => j <= i
  IN [id \in NodeIds(node) |-> ElementDataOf(visits[last(id)])]

RECURSIVE flatToTree(_, _)
\* SchemaTransformer.flatToTree: children are found through data.childrenIds
flatToTree(flatData, rootId) ==
  IF rootId \notin DOMAIN flatData THEN NullNode
  ELSE
    LET data == flatData[rootId]
        childIds == OrElse(data.childrenIds, <<>>)
        childNodes == [i \in DOMAIN childIds |-> flatToTree(flatData, childIds[i])]
        found == SelectSeq(childNodes, LAMBDA c : c # NullNode)
    IN [id |-> data.id, parentId |-> data.parentId,
        childrenIds |-> data.childrenIds, children |-> found]

RECURSIVE addChildAt(_, _, _)
\* ElementTreeBuilder.addChild: the parent object found through nodeMap gets
\* the child pushed onto both `children` and `childrenIds`
addChildAt(node, parentId, child) ==
  IF node.id = parentId
  THEN [node EXCEPT !.children = Append(@, child),
                    !.childrenIds = Some(Append(OrElse(@, <<>>), child.id))]
  ELSE [node EXCEPT !.children =
          [i \in DOMAIN @ |-> addChildAt(@[i], parentId, child)]]

RECURSIVE Shape(_)
\* ids, parent-to-children edges and child order of a tree
Shape(node) ==
  [id |-> node.id,
   kids |-> [i \in DOMAIN node.children |-> Shape(node.children[i])]]

(***************************************************************************)
(* Tree specification: builders build trees, the transformer round-trips   *)
(***************************************************************************)
TreeInit ==
  /\ built = {}
  /\ tb = NullNode
  /\ nextId = 1
  /\ src = NullNode
  /\ flat = <<>>
  /\ rebuilt = NullNode

\* new ElementBuilder(type).buildNode(children); with mirror the caller also
\* passed every child id to addChildId before building
BuildNode(children, mirror) ==
  /\ nextId <= MaxNodes
  /\ LET ids == IF mirror
                THEN Some([i \in DOMAIN children |-> children[i].id])
                ELSE Absent
         node == buildNode(nextId, Absent, ids, children)
     IN built' = (built \ Range(children)) \cup {node}
  /\ nextId' = nextId + 1
  /\ UNCHANGED <<tb, src, flat, rebuilt>>
  /\ UNCHANGED notTree

\* new ElementTreeBuilder(rootBuilder)
TreeBuilderNew ==
  /\ tb = NullNode
  /\ nextId <= MaxNodes
  /\ tb' = buildNode(nextId, Absent, Absent, <<>>)
  /\ nextId' = nextId + 1
  /\ UNCHANGED <<built, src, flat, rebuilt>>
  /\ UNCHANGED notTree

\* ElementTreeBuilder.addChild(parentId, childBuilder)
TreeBuilderAddChild(parentId) ==
  /\ tb # NullNode
  /\ parentId \in NodeIds(tb)
  /\ nextId <= MaxNodes
  /\ tb' = addChildAt(tb, parentId,
                      buildNode(nextId, Some(parentId), Absent, <<>>))
  /\ nextId' = nextId + 1
  /\ UNCHANGED <<built, src, flat, rebuilt>>
  /\ UNCHANGED notTree

\* flatToTree(nodeToFlat(t), t.id)
RoundTrip(t) ==
  /\ src' = t
  /\ flat' = nodeToFlat(t)
  /\ rebuilt' = flatToTree(flat', t.id)
  /\ UNCHANGED <<built, tb, nextId>>
  /\ UNCHANGED notTree

TreeNext ==
  \/ \E children \in DistinctSeqs(built, MaxChildren), mirror \in BOOLEAN :
       BuildNode(children, mirror)
  \/ TreeBuilderNew
  \/ \E p \in 1..MaxNodes : TreeBuilderAddChild(p)
  \/ \E t \in built \cup ({tb} \ {NullNode}) : RoundTrip(t)

\* C1: for every tree with pairwise distinct ids the round trip
\* flatToTree(nodeToFlat(t), t.id) yields a tree with the same ids, the same
\* parent-to-children edges and the same child order, for trees made by
\* ElementBuilder.buildNode(children) and by ElementTreeBuilder.addChild alike
RoundTripPreservesTree ==
  (src # NullNode /\ DistinctIds(src)) =>
     (rebuilt # NullNode /\ Shape(rebuilt) = Shape(src))

(***************************************************************************)
(* JavaScript values as they occur in element records                      *)
(***************************************************************************)
Undefined == [t |-> "undefined"]
Null == [t |-> "null"]
Num(n) == [t |-> "number", num |-> n]
Str(s) == [t |-> "string", str |-> s]
Bool(b) == [t |-> "boolean", bool |-> b]
Arr(items) == [t |-> "array", items |-> items]

typeof(x) == x.t

\* !x for the values above
Falsy(x) ==
  \/ x \in {Undefined, Null}
  \/ x = Num(0)
  \/ x = Str("")
  \/ x = Bool(FALSE)

\* ElementStyle with the properties the validator looks at; a property that
\* is not set reads as Undefined
Style(fontSize, width, height, color) ==
  [t |-> "object", fontSize |-> fontSize, width |-> width,
   height |-> height, color |-> color]

EmptyStyle == Style(Undefined, Undefined, Undefined, Undefined)

\* ElementState
State(selected, hidden) ==
  [t |-> "object", selected |-> selected, hovered |-> FALSE, active |-> FALSE,
   locked |-> FALSE, hidden |-> hidden]

DefaultState == State(FALSE, FALSE)

\* ElementMetadata
Metadata(now) ==
  [t |-> "object", createdAt |-> now, updatedAt |-> now, version |-> "1.0.0",
   category |-> "general"]

\* element.props with the keys the validator looks at
Props(content, srcProp) == [t |-> "object", content |-> content, src |-> srcProp]

\* ElementData; id, type and name are strings with "" for an empty or
\* missing one
ElementData(id, type, name, style, state, metadata, parentId, childrenIds, props) ==
  [id |-> id, type |-> type, name |-> name, style |-> style, state |-> state,
   metadata |-> metadata, parentId |-> parentId, childrenIds |-> childrenIds,
   props |-> props]

(***************************************************************************)
(* SchemaValidator                                                         *)
(***************************************************************************)
\* the strings of the model that match /^\d+(px|rem|em|%)$/
MatchesFontSizeRe(s) == s \in {"16px", "2em"}

\* the strings of the model that match /^\d+(px|rem|em|%|vw|vh)$/
MatchesSizeRe(s) == s \in {"16px", "2em", "10vw"}

\* the strings of the model that match one of the three colour patterns
MatchesColorRe(s) == s \in {"#fff", "rgb(0,0,0)"}

\* validator of the text rule for fontSize
fontSizeValidator(value) ==
  IF typeof(value) = "number" THEN value.num > 0
  ELSE IF typeof(value) = "string" THEN MatchesFontSizeRe(value.str)
  ELSE FALSE

\* validator of the width and height rules
sizeValidator(value) ==
  IF value = Undefined \/ value = Null THEN TRUE
  ELSE IF typeof(value) = "number" THEN value.num >= 0
  ELSE IF typeof(value) = "string"
       THEN MatchesSizeRe(value.str) \/ value.str = "auto"
  ELSE FALSE

\* validator of the color rule
colorValidator(value) ==
  IF value = Undefined \/ value = Null THEN TRUE
  ELSE IF typeof(value) # "string" THEN FALSE
  ELSE MatchesColorRe(value.str)

runValidator(rule, value) ==
  CASE rule.validator = "fontSize" -> fontSizeValidator(value)
    [] rule.validator = "size" -> sizeValidator(value)
    [] rule.validator = "color" -> colorValidator(value)

StyleRule(property, validator, code, isWarning) ==
  [property |-> property, validator |-> validator, code |-> code,
   isWarning |-> isWarning]

\* SchemaValidator.elementRules
elementRules ==
  << [type |-> "text", requiredProps |-> <<"content">>,
      styleRules |-> <<StyleRule("fontSize", "fontSize",
                                 "STYLE_INVALID_FONT_SIZE", FALSE)>>],
     [type |-> "image", requiredProps |-> <<"src">>,
      styleRules |-> <<StyleRule("width", "size",
                                 "STYLE_INVALID_WIDTH", FALSE)>>] >>

\* SchemaValidator.commonStyleRules
commonStyleRules ==
  << StyleRule("width", "size", "STYLE_INVALID_WIDTH", TRUE),
     StyleRule("height", "size", "STYLE_INVALID_HEIGHT", TRUE),
     StyleRule("color", "color", "STYLE_INVALID_COLOR", TRUE) >>

\* a ValidationError; field is the dotted path as a tuple
Issue(field, code) == [field |-> field, code |-> code]

\* a ValidationResult, and the outcome of a call that threw instead
Result(errors, warnings) ==
  [threw |-> FALSE, valid |-> (Len(errors) = 0), errors |-> errors,
   warnings |-> warnings]

Threw(what) == [threw |-> TRUE, error |-> what]

NoResult == [t |-> "none"]

\* does the rule add an entry for this style object
ruleFails(style, rule) ==
  LET value == style[rule.property]
  IN value # Undefined /\ value # Null /\ ~runValidator(rule, value)

styleIssue(style, rule) ==
  [field |-> <<"style", rule.property>>, code |-> rule.code,
   value |-> style[rule.property]]

\* the entries validateStyle pushes onto warnings
styleWarnings(style, rules) ==
  LET failing == SelectSeq(rules, LAMBDA r : r.isWarning /\ ruleFails(style, r))
  IN [i \in DOMAIN failing |-> styleIssue(style, failing[i])]

\* mutant: the isWarning flag is ignored and every failure is an error
styleErrorsIgnoringIsWarning(style, rules) ==
  LET failing == SelectSeq(rules, LAMBDA r : ruleFails(style, r))
  IN [i \in DOMAIN failing |-> styleIssue(style, failing[i])]

\* the entries validateStyle pushes onto errors
styleErrors(style, rules) ==
  LET failing == SelectSeq(rules, LAMBDA r : ~r.isWarning /\ ruleFails(style, r))
  IN [i \in DOMAIN failing |-> styleIssue(style, failing[i])]

\* style[rule.property] is a TypeError when style is undefined or null
validateStyleThrows(style, rules) ==
  Len(rules) > 0 /\ (style = Undefined \/ style = Null)

\* element.props?.[prop]
propOf(props, prop) == IF props = Undefined THEN Undefined ELSE props[prop]

\* SchemaValidator.validateElement
validateElement(element) ==
  LET idErrors ==
        IF element.id = "" THEN <<Issue(<<"id">>, "ELEMENT_MISSING_ID")>> ELSE <<>>
      typeErrors ==
        IF element.type = "" THEN <<Issue(<<"type">>, "ELEMENT_MISSING_TYPE")>>
        ELSE <<>>
      nameWarnings ==
        IF element.name = "" THEN <<Issue(<<"name">>, "ELEMENT_MISSING_NAME")>>
        ELSE <<>>
      matching == SelectSeq(elementRules, LAMBDA r : r.type = element.type)
      hasRule == Len(matching) > 0
      elementRule == matching[1]
      missing ==
        IF hasRule
        THEN SelectSeq(elementRule.requiredProps,
                       LAMBDA p : Falsy(propOf(element.props, p)))
        ELSE <<>>
      propErrors ==
        [i \in DOMAIN missing |-> Issue(<<"props", missing[i]>>, "PROPERTY_MISSING")]
      typeRules == IF hasRule THEN elementRule.styleRules ELSE <<>>
      childWarnings ==
        IF element.childrenIds.def /\ Len(element.childrenIds.v) > 0
        THEN <<Issue(<<"childrenIds">>, "CHILDREN_VALIDATION_REQUIRED")>>
        ELSE <<>>
  IN IF \/ validateStyleThrows(element.style, typeRules)
        \/ validateStyleThrows(element.style, commonStyleRules)
     THEN Threw("TypeError")
     ELSE Result(idErrors \o typeErrors \o propErrors
                   \o styleErrors(element.style, typeRules)
                   \o styleErrors(element.style, commonStyleRules),
                 nameWarnings
                   \o styleWarnings(element.style, typeRules)
                   \o styleWarnings(element.style, commonStyleRules)
                   \o childWarnings)

\* the name sanitizeElement gives: `未命名元素_${type}`
unnamedElement(type) ==
  CASE type = "container" -> "unnamed-element_container"
    [] type = "text" -> "unnamed-element_text"
    [] type = "image" -> "unnamed-element_image"
    [] OTHER -> "unnamed-element_other"

\* mutant: the name is left as it was
sanitizeKeepingName(element, genId, now) ==
  LET withId == [element EXCEPT !.id = IF @ = "" THEN genId ELSE @]
      withType == [withId EXCEPT !.type = IF @ = "" THEN "container" ELSE @]
  IN [withType EXCEPT
        !.style = IF @ \in {Undefined, Null} THEN EmptyStyle ELSE @,
        !.state = IF @ \in {Undefined, Null} THEN DefaultState ELSE @,
        !.metadata = IF @ \in {Undefined, Null} THEN Metadata(now) ELSE @]

\* the record SchemaValidator.sanitizeElement returns; genId is the id the
\* Date.now()/Math.random() expression yields, now is Date.now()
sanitized(element, genId, now) ==
  LET withId == [element EXCEPT !.id = IF @ = "" THEN genId ELSE @]
      withType == [withId EXCEPT !.type = IF @ = "" THEN "container" ELSE @]
      withName == [withType EXCEPT
                     !.name = IF @ = "" THEN unnamedElement(withType.type) ELSE @]
  IN [withName EXCEPT
        !.style = IF @ \in {Undefined, Null} THEN EmptyStyle ELSE @,
        !.state = IF @ \in {Undefined, Null} THEN DefaultState ELSE @,
        !.metadata = IF @ \in {Undefined, Null} THEN Metadata(now) ELSE @]

\* SchemaValidator.sanitizeElement: the assignments go to the copy
\* { ...element }, so the argument is left as it is
sanitizeElement(element, genId, now) ==
  [argument |-> element, returned |-> sanitized(element, genId, now)]

\* SchemaValidator.validateAndSanitize
validateAndSanitize(element, genId, now) ==
  LET s == sanitizeElement(element, genId, now)
  IN [argument |-> s.argument, element |-> s.returned,
      result |-> validateElement(s.returned)]

(***************************************************************************)
(* Inputs of the validator specifications                                  *)
(***************************************************************************)
GenIds == {"element_1", "element_2"}
Times == {1, 2}

ValidateStyles ==
  {Style(f, w, h, c) :
     f \in {Undefined, Num(0), Num(16), Str("16px"), Str("auto")},
     w \in {Undefined, Null, Num(-1), Num(0), Str("auto"), Str("wide")},
     h \in {Undefined, Num(-1)},
     c \in {Undefined, Str("red"), Str("#fff")}}

ValidateProps ==
  {Undefined, Props(Str(""), Undefined), Props(Str("hi"), Undefined),
   Props(Undefined, Str("a.png"))}

ChildrenIdsValues == {Absent, Some(<<>>), Some(<<"c1">>)}

\* well-typed ElementData records (style is an object)
ValidateInputs ==
  {ElementData(id, type, name, style, DefaultState, Metadata(1), Absent,
               kids, props) :
     id \in {"", "e1"}, type \in {"", "text", "image", "container"},
     name \in {"", "n"}, style \in ValidateStyles,
     kids \in ChildrenIdsValues, props \in ValidateProps}

\* records as a caller can pass them to sanitizeElement: any part missing
SanitizeInputs ==
  {ElementData(id, type, name, style, state, metadata, parent, kids, props) :
     id \in {"", "e1"}, type \in {"", "text", "image"}, name \in {"", "n"},
     style \in {Undefined, EmptyStyle, Style(Num(0), Str("wide"), Undefined, Undefined)},
     state \in {Undefined, DefaultState, State(TRUE, TRUE)},
     metadata \in {Undefined, Metadata(1)},
     parent \in {Absent, Some("p1")},
     kids \in {Absent, Some(<<"c1">>)},
     props \in {Undefined, Props(Str("hi"), Undefined)}}

SchemaIdle ==
  /\ elem = NoResult
  /\ elem0 = NoResult
  /\ vres = NoResult
  /\ san = NoResult
  /\ san2 = NoResult

ValidateInit ==
  /\ elem \in ValidateInputs
  /\ elem0 = elem
  /\ vres = NoResult
  /\ san = NoResult
  /\ san2 = NoResult

SanitizeInit ==
  /\ elem \in SanitizeInputs
  /\ elem0 = elem
  /\ vres = NoResult
  /\ san = NoResult
  /\ san2 = NoResult

\* SchemaValidator.validateElement(elem)
Validate ==
  /\ vres' = validateElement(elem)
  /\ UNCHANGED <<elem, elem0, san, san2>>
  /\ UNCHANGED notSchema

\* SchemaValidator.sanitizeElement(elem)
Sanitize(genId, now) ==
  /\ LET s == sanitizeElement(elem, genId, now)
     IN /\ elem' = s.argument
        /\ san' = s.returned
  /\ san2' = NoResult
  /\ vres' = NoResult
  /\ UNCHANGED elem0
  /\ UNCHANGED notSchema

\* SchemaValidator.sanitizeElement(san): the sanitizer applied to its own
\* result
SanitizeAgain(genId, now) ==
  /\ san # NoResult
  /\ san2' = sanitizeElement(san, genId, now).returned
  /\ UNCHANGED <<elem, elem0, vres, san>>
  /\ UNCHANGED notSchema

\* SchemaValidator.validateAndSanitize(elem)
ValidateAndSanitize(genId, now) ==
  /\ LET r == validateAndSanitize(elem, genId, now)
     IN /\ elem' = r.argument
        /\ san' = r.element
        /\ vres' = r.result
  /\ san2' = NoResult
  /\ UNCHANGED elem0
  /\ UNCHANGED notSchema

ValidateNext == Validate

SanitizeNext ==
  \/ \E g \in GenIds, n \in Times : Sanitize(g, n)
  \/ \E g \in GenIds, n \in Times : SanitizeAgain(g, n)
  \/ \E g \in GenIds, n \in Times : ValidateAndSanitize(g, n)

(***************************************************************************)
(* SchemaValidator.validateProject and SchemaTransformer.simpleToProject   *)
(***************************************************************************)
\* JavaScript || on the values above
OrDefault(value, dflt) == IF Falsy(value) THEN dflt ELSE value

\* CanvasConfig
Canvas(id, name, width, height, backgroundColor, grid, zoom, canvasElements) ==
  [t |-> "object", id |-> id, name |-> name, width |-> width,
   height |-> height, backgroundColor |-> backgroundColor, grid |-> grid,
   zoom |-> zoom, elements |-> canvasElements]

DefaultGrid == Str("grid:20")
DefaultZoom == Str("zoom:1")

\* ProjectConfig, and the plain document that is imported and exported: the
\* same keys, any of them possibly Undefined
Project(id, name, description, createdAt, updatedAt, canvas, projectElements, version) ==
  [t |-> "object", id |-> id, name |-> name, description |-> description,
   createdAt |-> createdAt, updatedAt |-> updatedAt, canvas |-> canvas,
   elements |-> projectElements, version |-> version]

\* an elements map as a JavaScript value
ElementsObject(map) == [t |-> "object", map |-> map]

EmptyMap == [id \in {} |-> Undefined]

\* simple.canvas?.key
canvasOf(simple, key) ==
  IF simple.canvas \in {Undefined, Null} THEN Undefined ELSE simple.canvas[key]

\* SchemaTransformer.simpleToProject; throws on a null or undefined argument
simpleToProject(simple, genId, now) ==
  IF simple \in {Undefined, Null} THEN Threw("TypeError")
  ELSE
    Project(OrDefault(simple.id, Str(genId)),
            OrDefault(simple.name, Str("unnamed-project")),
            simple.description,
            OrDefault(simple.createdAt, Num(now)),
            OrDefault(simple.updatedAt, Num(now)),
            Canvas(OrDefault(canvasOf(simple, "id"), Str("canvas")),
                   OrDefault(canvasOf(simple, "name"), Str("canvas-name")),
                   OrDefault(canvasOf(simple, "width"), Num(800)),
                   OrDefault(canvasOf(simple, "height"), Num(600)),
                   OrDefault(canvasOf(simple, "backgroundColor"), Str("#ffffff")),
                   OrDefault(canvasOf(simple, "grid"), DefaultGrid),
                   OrDefault(canvasOf(simple, "zoom"), DefaultZoom),
                   OrDefault(canvasOf(simple, "elements"), Arr(<<>>))),
            OrDefault(simple.elements, ElementsObject(EmptyMap)),
            OrDefault(simple.version, Str("1.0.0")))

\* SchemaTransformer.projectToSimple: the canvas of the plain document is
\* written without an elements key
projectToSimple(project) ==
  Project(project.id, project.name, project.description, project.createdAt,
          project.updatedAt,
          Canvas(project.canvas.id, project.canvas.name, project.canvas.width,
                 project.canvas.height, project.canvas.backgroundColor,
                 project.canvas.grid, project.canvas.zoom, Undefined),
          project.elements, project.version)

\* !x || x <= 0 for a canvas width or height
notPositive(value) ==
  Falsy(value) \/ (typeof(value) = "number" /\ value.num <= 0)

\* SchemaValidator.validateProject
validateProject(project) ==
  LET idErrors ==
        IF Falsy(project.id) THEN <<Issue(<<"id">>, "PROJECT_MISSING_ID")>>
        ELSE <<>>
      nameErrors ==
        IF Falsy(project.name)
        THEN <<Issue(<<"name">>, "PROJECT_MISSING_NAME")>> ELSE <<>>
      canvasErrors ==
        IF Falsy(project.canvas)
        THEN <<Issue(<<"canvas">>, "PROJECT_MISSING_CANVAS")>>
        ELSE (IF Falsy(project.canvas.id)
              THEN <<Issue(<<"canvas", "id">>, "CANVAS_MISSING_ID")>>
              ELSE <<>>)
          \o (IF notPositive(project.canvas.width)
              THEN <<Issue(<<"canvas", "width">>, "CANVAS_INVALID_WIDTH")>>
              ELSE <<>>)
          \o (IF notPositive(project.canvas.height)
              THEN <<Issue(<<"canvas", "height">>, "CANVAS_INVALID_HEIGHT")>>
              ELSE <<>>)
      elementWarnings ==
        IF Falsy(project.elements)
        THEN <<Issue(<<"elements">>, "PROJECT_EMPTY_ELEMENTS")>> ELSE <<>>
  IN Result(idErrors \o nameErrors \o canvasErrors, elementWarnings)

(***************************************************************************)
(* The element store (createElementStore)                                  *)
(***************************************************************************)
NoId == "<null>"

MAX_HISTORY == 100

HistoryRecord(type) == [type |-> type]

addHistoryUnlimited(h, index, type) ==
  LET pushed == Append(SubSeq(h, 1, index + 1), HistoryRecord(type))
  IN [history |-> pushed, historyIndex |-> Len(pushed) - 1]

\* the recipe of addHistory: history and historyIndex after the push
addHistory(h, index, type) ==
  LET pushed == Append(SubSeq(h, 1, index + 1), HistoryRecord(type))
      kept == IF Len(pushed) > MAX_HISTORY
              THEN SubSeq(pushed, Len(pushed) - MAX_HISTORY + 1, Len(pushed))
              ELSE pushed
  IN [history |-> kept, historyIndex |-> Len(kept) - 1]

\* what a store action handed back to its caller
Returned(op) == [op |-> op, threw |-> FALSE]
Thrown(op) == [op |-> op, threw |-> TRUE]
Validated(op, id, result) == [op |-> op, id |-> id, result |-> result]
Exported(document) ==
  [op |-> "exportProject", threw |-> FALSE, document |-> document]

\* draft.currentProject.updatedAt = Date.now(), if there is a project
touchProject(project, now) ==
  IF project = Null THEN Null ELSE [project EXCEPT !.updatedAt = Num(now)]

\* Object.assign(element, updates)
assign(element, updates) ==
  [f \in DOMAIN element |->
     IF f \in DOMAIN updates THEN updates[f] ELSE element[f]]

\* { ...defaultProject, ...config }
defaultProject(genId, now, config) ==
  LET name == IF config = Undefined \/ "name" \notin DOMAIN config
              THEN Str("new-project")
              ELSE OrDefault(config["name"], Str("new-project"))
      description == IF config = Undefined \/ "description" \notin DOMAIN config
                     THEN Undefined ELSE config["description"]
  IN Project(Str(genId), name, description, Num(now), Num(now),
             Canvas(Str("canvas"), Str("canvas-name"), Num(800), Num(600),
                    Str("#ffffff"), DefaultGrid, DefaultZoom, Arr(<<>>)),
             ElementsObject(EmptyMap), Str("1.0.0"))

StoreInit ==
  /\ currentProject = Null
  /\ elements = EmptyMap
  /\ rootElementId = NoId
  /\ selectedElementId = NoId
  /\ draggingElementId = NoId
  /\ hoveredElementId = NoId
  /\ history = <<>>
  /\ historyIndex = -1
  /\ outcome = NoResult

\* createProject(config)
createProject(config, genId, now) ==
  /\ LET dflt == defaultProject(genId, now, config)
         project == IF config = Undefined THEN dflt ELSE assign(dflt, config)
         h == addHistory(<<>>, -1, "createProject")
     IN /\ currentProject' = project
        /\ elements' = project.elements.map
        /\ history' = h.history
        /\ historyIndex' = h.historyIndex
  /\ rootElementId' = "canvas"
  /\ outcome' = Returned("createProject")
  /\ UNCHANGED <<selectedElementId, draggingElementId, hoveredElementId>>
  /\ UNCHANGED notStore

\* deleteProject()
deleteProject ==
  /\ currentProject' = Null
  /\ elements' = EmptyMap
  /\ rootElementId' = NoId
  /\ selectedElementId' = NoId
  /\ draggingElementId' = NoId
  /\ hoveredElementId' = NoId
  /\ history' = <<>>
  /\ historyIndex' = -1
  /\ outcome' = Returned("deleteProject")
  /\ UNCHANGED notStore

importProjectKeepingHistory(data, genId, now) ==
  /\ LET project == simpleToProject(data, genId, now)
         accepted == project # Threw("TypeError")
                       /\ validateProject(project).valid
         h == addHistory(history, historyIndex, "importProject")
     IN IF accepted
        THEN /\ currentProject' = project
             /\ elements' = project.elements.map
             /\ rootElementId' = "canvas"
             /\ selectedElementId' = NoId
             /\ draggingElementId' = NoId
             /\ hoveredElementId' = NoId
             /\ history' = h.history
             /\ historyIndex' = h.historyIndex
        ELSE UNCHANGED <<currentProject, elements, rootElementId,
                         selectedElementId, draggingElementId,
                         hoveredElementId, history, historyIndex>>
  /\ outcome' = Returned("importProject")
  /\ UNCHANGED notStore

\* importProject(data): a document that cannot be converted or does not
\* validate is logged and dropped
importProject(data, genId, now) ==
  /\ LET project == simpleToProject(data, genId, now)
         accepted == project # Threw("TypeError")
                       /\ validateProject(project).valid
         h == addHistory(<<>>, -1, "importProject")
     IN IF accepted
        THEN /\ currentProject' = project
             /\ elements' = project.elements.map
             /\ rootElementId' = "canvas"
             /\ selectedElementId' = NoId
             /\ draggingElementId' = NoId
             /\ hoveredElementId' = NoId
             /\ history' = h.history
             /\ historyIndex' = h.historyIndex
        ELSE UNCHANGED <<currentProject, elements, rootElementId,
                         selectedElementId, draggingElementId,
                         hoveredElementId, history, historyIndex>>
  /\ outcome' = Returned("importProject")
  /\ UNCHANGED notStore

\* exportProject(): the plain document of the current project, or an Error
exportProject(now) ==
  /\ outcome' =
       IF currentProject = Null THEN Thrown("exportProject")
       ELSE Exported(projectToSimple(
              [currentProject EXCEPT !.elements = ElementsObject(elements),
                                     !.updatedAt = Num(now)]))
  /\ UNCHANGED <<currentProject, elements, rootElementId, selectedElementId,
                 draggingElementId, hoveredElementId, history, historyIndex>>
  /\ UNCHANGED notStore

\* addElement(element, parentId); parentId = NoId when it is not passed
addElement(element, parentId, genId, now) ==
  /\ Len(history) < MaxHistoryLen
  /\ LET new == validateAndSanitize(element, genId, now).element
         id == new.id
         added == [k \in DOMAIN elements \cup {id} |->
                     IF k = id THEN new ELSE elements[k]]
         hasParent == parentId # NoId /\ parentId \in DOMAIN added
         linked == IF hasParent
                   THEN [added EXCEPT ![id].parentId = Some(parentId)]
                   ELSE added
         pushed == IF hasParent
                   THEN [linked EXCEPT ![parentId].childrenIds =
                           Some(Append(OrElse(@, <<>>), id))]
                   ELSE linked
         h == addHistory(history, historyIndex, "addElement")
     IN /\ elements' = pushed
        /\ rootElementId' = IF parentId = NoId /\ rootElementId = NoId
                            THEN id ELSE rootElementId
        /\ history' = h.history
        /\ historyIndex' = h.historyIndex
  /\ currentProject' = touchProject(currentProject, now)
  /\ outcome' = Returned("addElement")
  /\ UNCHANGED <<selectedElementId, draggingElementId, hoveredElementId>>
  /\ UNCHANGED notStore

\* updateElement(id, updates).  The recipe calls addHistory while the outer
\* set() is still computing its result from the state it started with, so
\* the record addHistory stores is overwritten when the outer set() merges
\* that result: history and historyIndex end as they were.
updateElement(id, updates, now) ==
  IF id \notin DOMAIN elements
  THEN /\ outcome' = Returned("updateElement")
       /\ UNCHANGED <<currentProject, elements, rootElementId,
                      selectedElementId, draggingElementId, hoveredElementId,
                      history, historyIndex>>
       /\ UNCHANGED notStore
  ELSE LET assigned == assign(elements[id], updates)
       IN IF assigned.metadata \in {Undefined, Null}
          THEN \* element.metadata.updatedAt = ... is a TypeError
               /\ outcome' = Thrown("updateElement")
               /\ UNCHANGED <<currentProject, elements, rootElementId,
                              selectedElementId, draggingElementId,
                              hoveredElementId, history, historyIndex>>
               /\ UNCHANGED notStore
          ELSE /\ elements' =
                    [elements EXCEPT
                       ![id] = [assigned EXCEPT !.metadata.updatedAt = now]]
               /\ currentProject' = touchProject(currentProject, now)
               /\ outcome' = Returned("updateElement")
               /\ UNCHANGED <<rootElementId, selectedElementId,
                              draggingElementId, hoveredElementId, history,
                              historyIndex>>
               /\ UNCHANGED notStore

\* element.childrenIds || []
childrenOf(els, id) == OrElse(els[id].childrenIds, <<>>)

\* parent.childrenIds.filter(childId => childId !== id) where the parent of
\* the element exists and has a list
withoutChild(els, id) ==
  LET parentId == els[id].parentId
  IN IF parentId.def /\ parentId.v \in DOMAIN els
        /\ els[parentId.v].childrenIds.def
     THEN [els EXCEPT ![parentId.v].childrenIds =
             Some(SelectSeq(@.v, LAMBDA childId : childId # id))]
     ELSE els

Kept(els) == [ok |-> TRUE, elements |-> els]
Failed(error) == [ok |-> FALSE, error |-> error]

deleteWithoutChildren(els, elementId, above) ==
  IF elementId \notin DOMAIN els THEN Failed("TypeError")
  ELSE Kept([k \in DOMAIN els \ {elementId} |-> els[k]])

\* deleteChildren(elementId) of deleteElement: the elements that are left.
\* An id that is no key of the map is a TypeError (elem.childrenIds); an id
\* that is reached again below itself never returns (RangeError).
RECURSIVE deleteChildren(_, _, _), deleteEach(_, _, _)
deleteChildren(els, elementId, above) ==
  IF elementId \notin DOMAIN els THEN Failed("TypeError")
  ELSE IF elementId \in above THEN Failed("RangeError")
  ELSE LET below == deleteEach(els, childrenOf(els, elementId),
                               above \cup {elementId})
       IN IF below.ok
          THEN Kept([k \in DOMAIN below.elements \ {elementId} |->
                       below.elements[k]])
          ELSE below

deleteEach(els, ids, above) ==
  IF ids = <<>> THEN Kept(els)
  ELSE LET first == deleteChildren(els, Head(ids), above)
       IN IF first.ok THEN deleteEach(first.elements, Tail(ids), above)
          ELSE first

\* deleteElement(id); the record its addHistory call stores is overwritten
\* by the outer set() as in updateElement.  An exception in the recipe
\* leaves the state as it was.
deleteElement(id, now) ==
  LET left == IF id \in DOMAIN elements
              THEN deleteChildren(withoutChild(elements, id), id, {})
              ELSE Kept(elements)
  IN /\ IF id \in DOMAIN elements /\ left.ok
        THEN /\ elements' = left.elements
             /\ rootElementId' = IF id = rootElementId THEN NoId
                                 ELSE rootElementId
             /\ selectedElementId' = IF id = selectedElementId THEN NoId
                                     ELSE selectedElementId
             /\ currentProject' = touchProject(currentProject, now)
        ELSE UNCHANGED <<elements, rootElementId, selectedElementId,
                         currentProject>>
     /\ outcome' = IF left.ok THEN Returned("deleteElement")
                   ELSE Thrown("deleteElement")
     /\ UNCHANGED <<draggingElementId, hoveredElementId, history,
                    historyIndex>>
     /\ UNCHANGED notStore

\* array.splice(index, 0, id) for 0 <= index < array.length, else push(id)
insertAt(list, index, id) ==
  IF index.def /\ index.v >= 0 /\ index.v < Len(list)
  THEN SubSeq(list, 1, index.v) \o <<id>> \o SubSeq(list, index.v + 1, Len(list))
  ELSE Append(list, id)

\* moveElement(id, newParentId, index); index is Absent when it is not
\* passed.  Its history record is overwritten as in updateElement.
moveElement(id, newParentId, index, now) ==
  /\ IF id \in DOMAIN elements /\ newParentId \in DOMAIN elements
     THEN LET removed == withoutChild(elements, id)
              moved == [removed EXCEPT ![id].parentId = Some(newParentId)]
          IN /\ elements' =
                  [moved EXCEPT ![newParentId].childrenIds =
                     Some(insertAt(OrElse(@, <<>>), index, id))]
             /\ currentProject' = touchProject(currentProject, now)
     ELSE UNCHANGED <<elements, currentProject>>
  /\ outcome' = Returned("moveElement")
  /\ UNCHANGED <<rootElementId, selectedElementId, draggingElementId,
                 hoveredElementId, history, historyIndex>>
  /\ UNCHANGED notStore

\* the part of the state that the addElement calls of duplicateElement
\* change one after the other
Adding(els, root, h, index, ids) ==
  [ok |-> TRUE, error |-> "", elements |-> els, rootElementId |-> root,
   history |-> h, historyIndex |-> index, ids |-> ids, stack |-> {}]

\* the copy that duplicateElement makes of an element
copyOf(element, id, parentId, now) ==
  [element EXCEPT
     !.id = id,
     !.parentId = parentId,
     !.childrenIds = Some(<<>>),
     !.metadata = IF @ \in {Undefined, Null}
                  THEN [t |-> "object", createdAt |-> now, updatedAt |-> now]
                  ELSE [@ EXCEPT !.createdAt = now, !.updatedAt = now]]

\* addElement(element, parentId) as a step from one state of the store to
\* the next; parentId is Absent or Some(id)
added(st, element, parentId, now) ==
  LET new == validateAndSanitize(element, "", now).element
      id == new.id
      withNew == [k \in DOMAIN st.elements \cup {id} |->
                    IF k = id THEN new ELSE st.elements[k]]
      hasParent == parentId.def /\ parentId.v \in DOMAIN withNew
      linked == IF hasParent
                THEN [withNew EXCEPT ![id].parentId = parentId]
                ELSE withNew
      pushed == IF hasParent
                THEN [linked EXCEPT ![parentId.v].childrenIds =
                        Some(Append(OrElse(@, <<>>), id))]
                ELSE linked
      h == addHistory(st.history, st.historyIndex, "addElement")
  IN [st EXCEPT
        !.elements = pushed,
        !.rootElementId = IF ~parentId.def /\ @ = NoId THEN id ELSE @,
        !.history = h.history,
        !.historyIndex = h.historyIndex]

\* the one value of a set of one
The(set) == CHOOSE x \in set : TRUE

\* duplicateChildren(parentId, originalParentId) of duplicateElement; ids
\* are the ids that the Date.now()/Math.random() expression yields next.
\* Where they run out the copying has not come to an end. stack holds the
\* originals whose children are being copied: on a childrenIds cycle the
\* calls nest without end, each one adding a copy, until the call stack
\* overflows (RangeError); the state then holds the copies made so far.
RECURSIVE duplicateChildren(_, _, _, _), duplicateEach(_, _, _, _)
duplicateChildren(state, parentId, originalParentId, now) ==
  The({ IF ~st.ok THEN st
        ELSE IF originalParentId \in st.stack
        THEN [st EXCEPT !.ok = FALSE, !.error = "RangeError"]
        ELSE The({ [done EXCEPT !.stack = st.stack] :
                   done \in {duplicateEach(
                      [st EXCEPT !.stack = @ \cup {originalParentId}],
                      IF originalParentId \in DOMAIN st.elements
                      THEN childrenOf(st.elements, originalParentId)
                      ELSE <<>>,
                      parentId, now)} })
        : st \in {state} })

duplicateEach(state, children, parentId, now) ==
  The({ IF ~st.ok \/ children = <<>> THEN st
        ELSE IF Head(children) \notin DOMAIN st.elements
        THEN duplicateEach(st, Tail(children), parentId, now)
        ELSE IF st.ids = <<>> THEN [st EXCEPT !.ok = FALSE]
        ELSE LET childId == Head(children)
                 id == Head(st.ids)
                 childDuplicate ==
                   copyOf(st.elements[childId], id, Some(parentId), now)
                 one == added([st EXCEPT !.ids = Tail(@)], childDuplicate,
                              Some(parentId), now)
                 deep == duplicateChildren(one, id, childId, now)
             IN duplicateEach(deep, Tail(children), parentId, now)
        : st \in {state} })

\* duplicateElement(id): the state after all its addElement calls
duplicated(st, id, now) ==
  IF st.ids = <<>> THEN [st EXCEPT !.ok = FALSE]
  ELSE LET original == st.elements[id]
           newId == Head(st.ids)
           duplicate ==
             [copyOf(original, newId, original.parentId, now) EXCEPT
                !.name = original.name \o " copy"]
           one == added([st EXCEPT !.ids = Tail(@)], duplicate,
                        duplicate.parentId, now)
       IN duplicateChildren(one, newId, id, now)

duplicateElement(id, ids, now) ==
  /\ IF id \in DOMAIN elements
     THEN \E st \in {duplicated(Adding(elements, rootElementId, history,
                                        historyIndex, ids), id, now)} :
            /\ st.ok \/ st.error = "RangeError"
            /\ Len(st.history) <= MaxHistoryLen
            /\ elements' = st.elements
            /\ rootElementId' = st.rootElementId
            /\ history' = st.history
            /\ historyIndex' = st.historyIndex
            /\ currentProject' = touchProject(currentProject, now)
            /\ outcome' = IF st.ok THEN Returned("duplicateElement")
                          ELSE Thrown("duplicateElement")
     ELSE /\ UNCHANGED <<elements, rootElementId, history, historyIndex,
                         currentProject>>
          /\ outcome' = Returned("duplicateElement")
  /\ UNCHANGED <<selectedElementId, draggingElementId, hoveredElementId>>
  /\ UNCHANGED notStore

\* batchUpdate(updates): updates maps ids to partial elements
batchUpdate(updates, now) ==
  /\ Len(history) < MaxHistoryLen
  /\ LET hit == DOMAIN updates \cap DOMAIN elements
         assigned == [k \in DOMAIN elements |->
                        IF k \in hit THEN assign(elements[k], updates[k])
                        ELSE elements[k]]
         h == addHistory(history, historyIndex, "batchUpdate")
     IN IF \E k \in hit : assigned[k].metadata \in {Undefined, Null}
        THEN /\ outcome' = Thrown("batchUpdate")
             /\ UNCHANGED <<currentProject, elements, history, historyIndex>>
        ELSE /\ elements' =
                  [k \in DOMAIN elements |->
                     IF k \in hit
                     THEN [assigned[k] EXCEPT !.metadata.updatedAt = now]
                     ELSE elements[k]]
             /\ currentProject' = touchProject(currentProject, now)
             /\ history' = h.history
             /\ historyIndex' = h.historyIndex
             /\ outcome' = Returned("batchUpdate")
  /\ UNCHANGED <<rootElementId, selectedElementId, draggingElementId,
                 hoveredElementId>>
  /\ UNCHANGED notStore

\* the store's addHistory(type, data)
storeAddHistory(type) ==
  /\ LET h == addHistory(history, historyIndex, type)
     IN history' = h.history /\ historyIndex' = h.historyIndex
  /\ outcome' = Returned("addHistory")
  /\ UNCHANGED <<currentProject, elements, rootElementId, selectedElementId,
                 draggingElementId, hoveredElementId>>
  /\ UNCHANGED notStore

undoToTheStart ==
  /\ historyIndex' = -1
  /\ outcome' = Returned("undo")
  /\ UNCHANGED <<currentProject, elements, rootElementId, selectedElementId,
                 draggingElementId, hoveredElementId, history>>
  /\ UNCHANGED notStore

undo ==
  /\ historyIndex' = IF historyIndex < 0 THEN historyIndex
                     ELSE historyIndex - 1
  /\ outcome' = Returned("undo")
  /\ UNCHANGED <<currentProject, elements, rootElementId, selectedElementId,
                 draggingElementId, hoveredElementId, history>>
  /\ UNCHANGED notStore

redo ==
  /\ historyIndex' = IF historyIndex >= Len(history) - 1 THEN historyIndex
                     ELSE historyIndex + 1
  /\ outcome' = Returned("redo")
  /\ UNCHANGED <<currentProject, elements, rootElementId, selectedElementId,
                 draggingElementId, hoveredElementId, history>>
  /\ UNCHANGED notStore

clearHistory ==
  /\ history' = <<>>
  /\ historyIndex' = -1
  /\ outcome' = Returned("clearHistory")
  /\ UNCHANGED <<currentProject, elements, rootElementId, selectedElementId,
                 draggingElementId, hoveredElementId>>
  /\ UNCHANGED notStore

\* an ElementState object and the place it has in memory: two elements
\* whose state carries one ref hold the same object, as { ...original }
\* and ElementBuilder.init (state = options.defaultState) leave them
StateObject(ref, selected) ==
  [t |-> "object", selected |-> selected, hovered |-> FALSE, active |-> FALSE,
   locked |-> FALSE, hidden |-> FALSE, ref |-> ref]

refOf(els, id) ==
  IF "ref" \in DOMAIN els[id].state THEN els[id].state.ref ELSE "state:" \o id

\* newElements[id].state[flag] = value, seen through every element that
\* holds the same state object
flagged(els, id, flag, value) ==
  [k \in DOMAIN els |->
     IF els[k].state \notin {Undefined, Null} /\ refOf(els, k) = refOf(els, id)
     THEN [els[k] EXCEPT !.state = [@ EXCEPT ![flag] = value]]
     ELSE els[k]]

\* the updater shared by selectElement and setHoveredElement, on the id
\* held so far and the new id. frozen: the build's immer froze what
\* produce() returned, so the assignment is a TypeError in module code
marked(els, previous, id, flag, frozen) ==
  LET hasPrevious == previous # NoId /\ previous \in DOMAIN els
      hasId == id # NoId /\ id \in DOMAIN els
      noState(k) == els[k].state \in {Undefined, Null}
      cleared == IF hasPrevious THEN flagged(els, previous, flag, FALSE)
                 ELSE els
  IN IF hasPrevious /\ (frozen \/ noState(previous))
     THEN [threw |-> TRUE, elements |-> els]
     ELSE IF hasId /\ (frozen \/ noState(id))
     THEN [threw |-> TRUE, elements |-> cleared]
     ELSE [threw |-> FALSE,
           elements |-> IF hasId THEN flagged(cleared, id, flag, TRUE)
                        ELSE cleared]

\* selectElement(id); NoId stands for null
selectElement(id, frozen) ==
  /\ \E m \in {marked(elements, selectedElementId, id, "selected", frozen)} :
       /\ elements' = m.elements
       /\ selectedElementId' = IF m.threw THEN selectedElementId ELSE id
       /\ outcome' = IF m.threw THEN Thrown("selectElement")
                     ELSE Returned("selectElement")
  /\ UNCHANGED <<currentProject, rootElementId, draggingElementId,
                 hoveredElementId, history, historyIndex>>
  /\ UNCHANGED notStore

\* clearSelection()
clearSelection(frozen) == selectElement(NoId, frozen)

\* startDragging(id)
startDragging(id) ==
  /\ draggingElementId' = id
  /\ outcome' = Returned("startDragging")
  /\ UNCHANGED <<currentProject, elements, rootElementId, selectedElementId,
                 hoveredElementId, history, historyIndex>>
  /\ UNCHANGED notStore

\* stopDragging()
stopDragging ==
  /\ draggingElementId' = NoId
  /\ outcome' = Returned("stopDragging")
  /\ UNCHANGED <<currentProject, elements, rootElementId, selectedElementId,
                 hoveredElementId, history, historyIndex>>
  /\ UNCHANGED notStore

\* setHoveredElement(id); NoId stands for null
setHoveredElement(id, frozen) ==
  /\ \E m \in {marked(elements, hoveredElementId, id, "hovered", frozen)} :
       /\ elements' = m.elements
       /\ hoveredElementId' = IF m.threw THEN hoveredElementId ELSE id
       /\ outcome' = IF m.threw THEN Thrown("setHoveredElement")
                     ELSE Returned("setHoveredElement")
  /\ UNCHANGED <<currentProject, rootElementId, selectedElementId,
                 draggingElementId, history, historyIndex>>
  /\ UNCHANGED notStore

\* { ...element, children }: an ElementNode
ElementNode(element, children) == [element |-> element, children |-> children]

\* buildTree(elementId) of getElementTree. above: the calls this one is
\* nested in; on a childrenIds cycle the recursion has no end and the call
\* stack overflows (RangeError). none: the call returned null
RECURSIVE buildTree(_, _, _), buildEach(_, _, _)
buildTree(els, elementId, above) ==
  IF elementId \notin DOMAIN els THEN [ok |-> TRUE, none |-> TRUE]
  ELSE IF elementId \in above THEN Failed("RangeError")
  ELSE The({ IF ~kids.ok THEN kids
             ELSE [ok |-> TRUE, none |-> FALSE,
                   node |-> ElementNode(els[elementId], kids.nodes)] :
             kids \in {buildEach(els, childrenOf(els, elementId),
                                 above \cup {elementId})} })

\* element.childrenIds.forEach(childId => ...): the nodes that are not null
buildEach(els, ids, above) ==
  IF ids = <<>> THEN [ok |-> TRUE, nodes |-> <<>>]
  ELSE The({ IF ~first.ok THEN first
             ELSE The({ IF ~rest.ok THEN rest
                        ELSE [ok |-> TRUE,
                              nodes |-> IF first.none THEN rest.nodes
                                        ELSE <<first.node>> \o rest.nodes] :
                        rest \in {buildEach(els, Tail(ids), above)} }) :
             first \in {buildTree(els, Head(ids), above)} })

\* what getElementTree(rootId) returns; NoId stands for no argument
elementTree(els, root, rootId) ==
  LET start == IF rootId # NoId THEN rootId ELSE root
  IN IF start = NoId THEN [ok |-> TRUE, none |-> TRUE]
     ELSE buildTree(els, start, {})

\* getElementTree(rootId)
getElementTree(rootId) ==
  /\ \E tree \in {elementTree(elements, rootElementId, rootId)} :
       outcome' = [op |-> "getElementTree", threw |-> ~tree.ok, tree |-> tree]
  /\ UNCHANGED <<currentProject, elements, rootElementId, selectedElementId,
                 draggingElementId, hoveredElementId, history, historyIndex>>
  /\ UNCHANGED notStore

elementNotFound ==
  [threw |-> FALSE, valid |-> FALSE,
   errors |-> <<Issue(<<"id">>, "ELEMENT_NOT_FOUND")>>, warnings |-> <<>>]

projectNotLoaded ==
  [threw |-> FALSE, valid |-> FALSE,
   errors |-> <<Issue(<<"project">>, "PROJECT_NOT_LOADED")>>, warnings |-> <<>>]

\* the store's validateElement(id)
storeValidateElement(id) ==
  /\ outcome' = Validated("validateElement", id,
                          IF id \notin DOMAIN elements THEN elementNotFound
                          ELSE validateElement(elements[id]))
  /\ UNCHANGED <<currentProject, elements, rootElementId, selectedElementId,
                 draggingElementId, hoveredElementId, history, historyIndex>>
  /\ UNCHANGED notStore

\* the store's validateProject()
storeValidateProject ==
  /\ outcome' = Validated("validateProject", NoId,
                          IF currentProject = Null THEN projectNotLoaded
                          ELSE validateProject(currentProject))
  /\ UNCHANGED <<currentProject, elements, rootElementId, selectedElementId,
                 draggingElementId, hoveredElementId, history, historyIndex>>
  /\ UNCHANGED notStore

(***************************************************************************)
(* Inputs of the element store specification                               *)
(***************************************************************************)
TextElement(id) ==
  ElementData(id, "text", "t", EmptyStyle, DefaultState, Metadata(1), Absent,
              Absent, Props(Str("hi"), Undefined))

\* a record as a JSON document can hold it: no style object
StylelessElement(id) ==
  ElementData(id, "text", "t", Undefined, DefaultState, Metadata(1), Absent,
              Absent, Props(Str("hi"), Undefined))

\* a record with nothing but a type
BareElement ==
  ElementData("", "image", "", Undefined, Undefined, Undefined, Absent,
              Absent, Undefined)

StoreIds == {"e1", "e2"}

\* Date.now() and the generated ids during the store's actions
StoreNow == 2
StoreGenIds == {"element_1"}

AddInputs == {TextElement("e1"), StylelessElement("e2"), BareElement}

UpdateInputs ==
  { [f \in {"style"} |-> Undefined],
    [f \in {"style"} |-> Style(Num(0), Undefined, Undefined, Undefined)],
    [f \in {"name"} |-> ""] }

ImportedMaps ==
  { EmptyMap,
    [id \in {"e1"} |-> TextElement(id)],
    [id \in {"e1"} |-> StylelessElement(id)] }

Document(id, width, map) ==
  Project(id, Str("doc"), Undefined, Num(1), Num(1),
          Canvas(Str("canvas"), Str("canvas-name"), width, Num(600),
                 Str("#ffffff"), DefaultGrid, DefaultZoom, Arr(<<>>)),
          map, Str("1.0.0"))

ImportInputs ==
  {Null}
    \cup {Document(Str("p1"), w, ElementsObject(m)) :
            w \in {Num(800), Num(-5)}, m \in ImportedMaps}
    \cup {Document(Undefined, Undefined, Undefined)}

ConfigInputs ==
  { Undefined,
    [f \in {"name"} |-> Str("P")],
    [f \in {"elements"} |-> ElementsObject([id \in {"e2"} |-> StylelessElement(id)])] }

StoreNext ==
  \/ \E c \in ConfigInputs : createProject(c, "project_1", StoreNow)
  \/ deleteProject
  \/ \E d \in ImportInputs : importProject(d, "project_1", StoreNow)
  \/ \E e \in AddInputs, parent \in StoreIds \cup {NoId} :
       \E g \in StoreGenIds \ DOMAIN elements :
         addElement(e, parent, g, StoreNow)
  \/ \E id \in StoreIds, u \in UpdateInputs : updateElement(id, u, StoreNow)
  \/ \E id \in StoreIds : storeValidateElement(id)
  \/ storeValidateProject

\* documents that are uploaded: with and without a description, top-level
\* element ids on the canvas and elements
ExportDocs ==
  { Project(Str(id), Str("doc"), description, Num(1), Num(1),
            Canvas(Str("canvas"), Str("canvas-name"), width, Num(600),
                   Str("#ffffff"), DefaultGrid, DefaultZoom, canvasElements),
            ElementsObject(m), Str(version)) :
      id \in {"p1", "p2"}, description \in {Undefined, Str("about")},
      width \in {Num(800), Num(-5)},
      canvasElements \in {Undefined, Arr(<<>>), Arr(<<"e1">>)},
      m \in ImportedMaps, version \in {"1.0.0", "2.0.0"} }

\* the document that exportProject returned is uploaded again
importExported(genId, now) ==
  /\ outcome # NoResult
  /\ outcome.op = "exportProject"
  /\ ~outcome.threw
  /\ importProject(outcome.document, genId, now)

ExportNext ==
  \/ \E d \in ExportDocs : importProject(d, "project_1", StoreNow)
  \/ exportProject(StoreNow)
  \/ importExported("project_1", StoreNow)

\* the inputs of the history specification: two elements as the editor
\* creates them, each under an id that is not in use
NewElement(id) ==
  ElementData(id, "text", "t", EmptyStyle, DefaultState, Metadata(StoreNow),
              Absent, Absent, Props(Str("hi"), Undefined))

Rename == [f \in {"name"} |-> "t2"]

HistoryDocument(width) ==
  Project(Str("p1"), Str("doc"), Undefined, Num(StoreNow), Num(StoreNow),
          Canvas(Str("canvas"), Str("canvas-name"), width, Num(600),
                 Str("#ffffff"), DefaultGrid, DefaultZoom, Arr(<<>>)),
          ElementsObject([id \in {"e1"} |-> NewElement(id)]), Str("1.0.0"))

\* no document, a document that validates and one that does not
HistoryDocs == {Null, HistoryDocument(Num(800)), HistoryDocument(Num(-5))}

\* the actions that call addHistory are followed up to MaxHistoryLen records
Short == Len(history) < MaxHistoryLen

\* addHistory itself is followed up to MAX_HISTORY records and over, on a
\* store that holds nothing else: 'custom' records in a row, and one
\* 'marker' record once the history is about to be full
HistoryTypes == {"custom", "marker"}
Followed(type) ==
  /\ currentProject = Null
  /\ elements = EmptyMap
  /\ \A i \in 1..(Len(history) - 1) : history[i] = HistoryRecord("custom")
  /\ type = "marker" =>
       /\ Len(history) >= MAX_HISTORY - 1
       /\ history[Len(history)] = HistoryRecord("custom")

HistoryNext ==
  \/ createProject(Undefined, "project_1", StoreNow)
  \/ deleteProject
  \/ \E d \in HistoryDocs : importProject(d, "project_1", StoreNow)
  \/ \E id \in StoreIds \ DOMAIN elements, parent \in {NoId, "e1"} :
       addElement(NewElement(id), parent, "element_1", StoreNow)
  \/ \E id \in StoreIds : Short /\ updateElement(id, Rename, StoreNow)
  \/ \E id \in StoreIds : Short /\ deleteElement(id, StoreNow)
  \/ Short /\ moveElement("e2", "e1", Absent, StoreNow)
  \/ batchUpdate([id \in {"e1"} |-> Rename], StoreNow)
  \/ \E type \in HistoryTypes : Followed(type) /\ storeAddHistory(type)
  \/ undo
  \/ redo
  \/ clearHistory

\* the inputs of the tree specification: elements under two ids, any parent,
\* and the ids that duplicateElement makes up
LinkIds == StoreIds \cup {"d1", "d2"}
DuplicateIds(els) ==
  SelectSeq(<<"d1", "d2">>, LAMBDA id : id \notin DOMAIN els)

LinksNext ==
  \/ \E id \in StoreIds, parent \in StoreIds \cup {NoId} :
       addElement(NewElement(id), parent, "element_1", StoreNow)
  \/ \E id \in LinkIds, newParentId \in LinkIds,
        index \in {Absent, Some(0)} :
       moveElement(id, newParentId, index, StoreNow)
  \/ \E id \in LinkIds : duplicateElement(id, DuplicateIds(elements), StoreNow)
  \/ \E id \in LinkIds : deleteElement(id, StoreNow)

\* the inputs of the selection specifications: an element as
\* ElementBuilder.init leaves it, its state the one defaultState object of
\* DEFAULT_OPTIONS, and an element that came with a state object of its own
BuiltElement(id) ==
  [NewElement(id) EXCEPT !.state = StateObject("defaultState", FALSE)]
OwnElement(id) ==
  [NewElement(id) EXCEPT !.state = StateObject("state:" \o id, FALSE)]
SelectIds == StoreIds \cup {"d1", NoId}

SelectionNext ==
  \/ \E id \in StoreIds, parent \in {NoId, "e1"} :
       \E element \in {BuiltElement(id), OwnElement(id)} :
         addElement(element, parent, "element_1", StoreNow)
  \/ \E id \in LinkIds : duplicateElement(id, DuplicateIds(elements), StoreNow)
  \/ \E id \in SelectIds, frozen \in BOOLEAN : selectElement(id, frozen)
  \/ \E frozen \in BOOLEAN : clearSelection(frozen)
  \/ \E id \in LinkIds : deleteElement(id, StoreNow)

\* the ids handed to the pointer actions: null, and two ids that are in
\* elements at some times and not at others
PointerIds == StoreIds \cup {NoId}

PointerNext ==
  \/ createProject(Undefined, "project_1", StoreNow)
  \/ \E id \in StoreIds, parent \in {NoId, "e1"} :
       addElement(OwnElement(id), parent, "element_1", StoreNow)
  \/ \E id \in StoreIds : deleteElement(id, StoreNow)
  \/ \E id \in PointerIds, frozen \in BOOLEAN : selectElement(id, frozen)
  \/ \E id \in PointerIds, frozen \in BOOLEAN :
       setHoveredElement(id, frozen)
  \/ \E id \in StoreIds : startDragging(id)
  \/ stopDragging

\* the inputs of the root specification: projects created and dropped,
\* elements added with and without a parent, and the tree read back
RootNext ==
  \/ createProject(Undefined, "project_1", StoreNow)
  \/ deleteProject
  \/ \E id \in StoreIds \cup {"canvas"}, parent \in {NoId, "e1"} :
       addElement(OwnElement(id), parent, "element_1", StoreNow)
  \/ \E id \in StoreIds : deleteElement(id, StoreNow)
  \/ \E rootId \in {NoId, "e1"} : getElementTree(rootId)

\* the inputs of the copy specification: three elements of three types,
\* added under one another, and the three ids that duplicateElement makes
\* up next; clearHistory makes room in the followed part of the history
\* once the three elements are stored
CopyIds == {"e1", "e2", "e3"}
CopyType(id) ==
  CASE id = "e1" -> "container" [] id = "e2" -> "text" [] OTHER -> "image"
CopyElement(id) == [NewElement(id) EXCEPT !.type = CopyType(id)]
CopyDuplicateIds(els) ==
  SelectSeq(<<"d1", "d2", "d3">>, LAMBDA id : id \notin DOMAIN els)
CopyTargets == CopyIds \cup {"d1"}

CopyNext ==
  \/ \E id \in CopyIds, parent \in {NoId, "e1", "e2"} :
       /\ id \notin DOMAIN elements
       /\ addElement(CopyElement(id), parent, "element_1", StoreNow)
  \/ \E id \in CopyTargets :
       duplicateElement(id, CopyDuplicateIds(elements), StoreNow)
  \/ CopyIds \subseteq DOMAIN elements /\ history # <<>> /\ clearHistory

(***************************************************************************)
(* The worklet registry (WorkletRegistry, workletLoader)                   *)
(***************************************************************************)
WorkletTypes ==
  {"text-renderer", "canvas-engine", "layout-engine", "gradient-engine"}

\* the async calls the model runs side by side
Tasks == {1}

Url(type) ==
  CASE type = "text-renderer" -> "/worklets/text-renderer.js"
    [] type = "canvas-engine" -> "/worklets/canvas-engine.js"
    [] type = "layout-engine" -> "/worklets/layout-engine.js"
    [] type = "gradient-engine" -> "/worklets/gradient-engine.js"

WorkletConfig(type, dependencies, isRequired, retryCount) ==
  [type |-> type, url |-> Url(type), dependencies |-> dependencies,
   isRequired |-> isRequired, retryCount |-> retryCount]

defaultConfigs ==
  <<WorkletConfig("text-renderer", Absent, Some(TRUE), Some(3)),
    WorkletConfig("canvas-engine", Absent, Some(TRUE), Some(3)),
    WorkletConfig("layout-engine", Absent, Some(FALSE), Some(2)),
    WorkletConfig("gradient-engine", Absent, Some(FALSE), Some(2))>>

\* Array.from(this.configs.keys()): a Map keeps the order of first insertion
configKeys == [i \in DOMAIN defaultConfigs |-> defaultConfigs[i].type]

\* if (config.isRequired)
isRequired(config) == config.isRequired.def /\ config.isRequired.v

\* const maxRetries = config.retryCount || 1
maxRetries(config) ==
  IF config.retryCount.def /\ config.retryCount.v # 0
  THEN config.retryCount.v
  ELSE 1

\* for (const dep of config.dependencies) under if (config.dependencies)
dependenciesOf(config) ==
  IF config.dependencies.def THEN config.dependencies.v ELSE <<>>

\* what the listeners and paintWorklet see, in order; Called and Settled
\* record where a loadWorklet call starts and how its promise settles
Event(type, worklet) == [op |-> "event", type |-> type, worklet |-> worklet]
Progress(loaded, total) ==
  [op |-> "event", type |-> "progress", loaded |-> loaded, total |-> total]
AddModule(url, ok) == [op |-> "addModule", url |-> url, ok |-> ok]
Called(type, depth) == [op |-> "called", worklet |-> type, depth |-> depth]
Settled(type, depth, how) ==
  [op |-> "settled", worklet |-> type, depth |-> depth, how |-> how]

\* the frames of one async call chain, the awaiting callers below the callee
LoadWorkletFrame(type, config) ==
  [fn |-> "loadWorklet", type |-> type, config |-> config, pc |-> "deps",
   dep |-> 1, attempt |-> 0]
LoadWorkletsFrame(types) ==
  [fn |-> "loadWorklets", types |-> types, i |-> 1, loaded |-> 0]

top(w) == w.stack[Len(w.stack)]
setTop(w, f) == [w EXCEPT !.stack[Len(w.stack)] = f]
emitEvent(w, e) == [w EXCEPT !.log = Append(@, e)]

\* loadWorklets' catch block: does it throw the error on?
catchAlwaysRethrows(w, type) == TRUE
catchRethrows(w, type) == isRequired(configs[type])

\* One call chain runs until it awaits addModule or the backoff timer, or
\* until its outermost promise settles.  w holds the chain's stack and log
\* and the registry's status and loadedWorklets.
RECURSIVE loadWorkletEnter(_, _), loadWorkletDeps(_), settle(_, _)

\* loadWorklet(type), lines 89-104, called by the frame on top of w.stack
loadWorkletEnter(w, type) ==
  LET config == configs[type]
      pushed == [w EXCEPT !.stack = Append(@, LoadWorkletFrame(type, config)),
                          !.log = Append(@, Called(type, Len(w.stack) + 1))]
  IN IF ~isWorkletSupported
     THEN settle(emitEvent([pushed EXCEPT !.status[type] = "error"],
                           Event("error", type)),
                 "rejected")
     ELSE loadWorkletDeps(pushed)

\* loadWorklet, lines 105-124: the dependency loop from config.dependencies
\* [dep] on, then the loaded check and the start of the retry loop
loadWorkletDeps(w) ==
  LET f == top(w)
      deps == dependenciesOf(f.config)
  IN IF f.dep <= Len(deps)
     THEN IF w.status[deps[f.dep]] # "loaded"
          THEN loadWorkletEnter(setTop(w, [f EXCEPT !.pc = "awaitDep"]),
                                deps[f.dep])
          ELSE loadWorkletDeps(setTop(w, [f EXCEPT !.dep = @ + 1]))
     ELSE IF w.status[f.type] = "loaded"
          THEN settle(w, "resolved")
          ELSE LET started ==
                     emitEvent([w EXCEPT !.status[f.type] = "loading"],
                               Event("loadstart", f.type))
               IN IF 1 <= maxRetries(f.config)
                  THEN setTop(started,
                              [f EXCEPT !.pc = "addModule", !.attempt = 1])
                  ELSE settle(started, "resolved")

\* the promise of the frame on top settles; its awaiting caller goes on:
\* loadWorklet at line 109 (no try around it), loadWorklets at lines 163-173
settle(w, how) ==
  LET f == top(w)
      name == IF f.fn = "loadWorklet" THEN f.type ELSE "*"
      popped == [w EXCEPT !.stack = SubSeq(@, 1, Len(@) - 1),
                          !.log = Append(@, Settled(name, Len(w.stack), how))]
  IN IF popped.stack = <<>>
     THEN [popped EXCEPT !.promise = how]
     ELSE LET c == top(popped)
          IN IF c.fn = "loadWorklet"
             THEN IF how = "rejected"
                  THEN settle(popped, "rejected")
                  ELSE loadWorkletDeps(
                         setTop(popped,
                                [c EXCEPT !.dep = @ + 1, !.pc = "deps"]))
             ELSE IF how = "rejected" /\ catchRethrows(popped, c.types[c.i])
                  THEN settle(popped, "rejected")
                  ELSE LET counted ==
                             emitEvent(
                               setTop(popped, [c EXCEPT !.loaded = @ + 1,
                                                        !.i = @ + 1]),
                               Progress(c.loaded + 1, Len(c.types)))
                       IN IF c.i + 1 <= Len(c.types)
                          THEN loadWorkletEnter(counted, c.types[c.i + 1])
                          ELSE settle(counted, "resolved")

\* the registry and one idle task, as a call of that task finds them
chainOf(k) ==
  [stack |-> calls[k], log |-> workletLog[k], promise |-> promise[k],
   status |-> status, loadedWorklets |-> loadedWorklets]

\* a call of task k starts from an empty chain
newChain ==
  [stack |-> <<>>, log |-> <<>>, promise |-> "pending",
   status |-> status, loadedWorklets |-> loadedWorklets]

\* the chain's state goes back to the variables
become(k, w) ==
  /\ calls' = [calls EXCEPT ![k] = w.stack]
  /\ workletLog' = [workletLog EXCEPT ![k] = w.log]
  /\ promise' = [promise EXCEPT ![k] = w.promise]
  /\ status' = w.status
  /\ loadedWorklets' = w.loadedWorklets
  /\ UNCHANGED <<isWorkletSupported, configs>>

Idle == \A k \in DOMAIN calls : calls[k] = <<>>

Request(fn, types) == [fn |-> fn, types |-> types, status |-> status]
NoRequest ==
  [fn |-> "none", types |-> <<>>, status |-> [t \in WorkletTypes |-> "pending"]]

\* the records of the settled calls end when the registry is reconfigured
forget ==
  /\ workletLog' = [k \in DOMAIN calls |-> <<>>]
  /\ promise' = [k \in DOMAIN calls |-> "none"]
  /\ request' = [k \in DOMAIN calls |-> NoRequest]

\* the constructor: initDefaultConfigs registers the four default configs
WorkletInit ==
  /\ isWorkletSupported \in BOOLEAN
  /\ configs = [t \in WorkletTypes |->
                  defaultConfigs[CHOOSE i \in DOMAIN defaultConfigs :
                                   defaultConfigs[i].type = t]]
  /\ status = [t \in WorkletTypes |-> "pending"]
  /\ loadedWorklets = {}
  /\ calls = [k \in Tasks |-> <<>>]
  /\ workletLog = [k \in Tasks |-> <<>>]
  /\ promise = [k \in Tasks |-> "none"]
  /\ request = [k \in Tasks |-> NoRequest]

\* register(config)
register(config) ==
  /\ Idle
  /\ configs' = [configs EXCEPT ![config.type] = config]
  /\ status' = [status EXCEPT ![config.type] = "pending"]
  /\ forget
  /\ UNCHANGED <<isWorkletSupported, loadedWorklets, calls>>
  /\ UNCHANGED notWorklet

\* reset()
reset ==
  /\ Idle
  /\ loadedWorklets' = {}
  /\ status' = [t \in WorkletTypes |-> "pending"]
  /\ forget
  /\ UNCHANGED <<isWorkletSupported, configs, calls>>
  /\ UNCHANGED notWorklet

\* loadWorklet(type) of a caller that has no call running, up to its first
\* await that does not settle at once
loadWorklet(k, type) ==
  /\ calls[k] = <<>>
  /\ request' = [request EXCEPT ![k] = Request("loadWorklet", <<type>>)]
  /\ become(k, loadWorkletEnter(newChain, type))
  /\ UNCHANGED notWorklet

\* loadWorklets(types), workletLoader.init(types); types = Absent stands for
\* a call without argument
loadWorklets(k, types) ==
  LET workletsToLoad == IF types.def THEN types.v ELSE configKeys
      w == [newChain EXCEPT !.stack = <<LoadWorkletsFrame(workletsToLoad)>>]
  IN /\ calls[k] = <<>>
     /\ request' = [request EXCEPT ![k] = Request("loadWorklets",
                                                  workletsToLoad)]
     /\ become(k, IF workletsToLoad = <<>>
                  THEN settle(w, "resolved")
                  ELSE loadWorkletEnter(w, workletsToLoad[1]))
     /\ UNCHANGED notWorklet

\* paintWorklet.addModule(config.url) resolves: lines 127-130
addModuleResolves(k) ==
  /\ calls[k] # <<>>
  /\ LET w == chainOf(k)
         f == top(w)
     IN /\ f.fn = "loadWorklet" /\ f.pc = "addModule"
        /\ become(k,
             settle(
               emitEvent(
                 [emitEvent(w, AddModule(f.config.url, TRUE))
                    EXCEPT !.status[f.type] = "loaded",
                           !.loadedWorklets = @ \cup {f.type}],
                 Event("load", f.type)),
               "resolved"))
  /\ UNCHANGED request
  /\ UNCHANGED notWorklet

\* paintWorklet.addModule(config.url) rejects: lines 131-152
addModuleRejects(k) ==
  /\ calls[k] # <<>>
  /\ LET w == chainOf(k)
         f == top(w)
         failed == emitEvent(w, AddModule(f.config.url, FALSE))
         errored == emitEvent([failed EXCEPT !.status[f.type] = "error"],
                              Event("error", f.type))
     IN /\ f.fn = "loadWorklet" /\ f.pc = "addModule"
        /\ become(k,
             IF f.attempt = maxRetries(f.config)
             THEN IF isRequired(f.config)
                  THEN settle(errored, "rejected")
                  ELSE settle(errored, "resolved")
             ELSE setTop(failed, [f EXCEPT !.pc = "backoff"]))
  /\ UNCHANGED request
  /\ UNCHANGED notWorklet

\* the setTimeout of line 150 fires: the loop goes to its next attempt
backoffElapses(k) ==
  /\ calls[k] # <<>>
  /\ LET w == chainOf(k)
         f == top(w)
     IN /\ f.fn = "loadWorklet" /\ f.pc = "backoff"
        /\ become(k, setTop(w, [f EXCEPT !.pc = "addModule",
                                         !.attempt = @ + 1]))
  /\ UNCHANGED request
  /\ UNCHANGED notWorklet

(***************************************************************************)
(* Inputs of the worklet specification                                     *)
(***************************************************************************)
\* configs a caller registers over the defaults; no dependency cycle arises
RegisterInputs ==
  {WorkletConfig("canvas-engine",
                 Some(<<"text-renderer", "layout-engine">>),
                 Some(TRUE), Some(3)),
   WorkletConfig("gradient-engine", Some(<<"canvas-engine">>),
                 Absent, Absent),
   WorkletConfig("text-renderer", Some(<<>>), Some(TRUE), Some(0))}

LoadWorkletsInputs ==
  {Absent,
   Some(<<"layout-engine", "canvas-engine", "gradient-engine">>)}

WorkletNext ==
  \/ \E c \in RegisterInputs : register(c)
  \/ reset
  \/ \E k \in Tasks, t \in WorkletTypes : Idle /\ loadWorklet(k, t)
  \/ \E k \in Tasks, ts \in LoadWorkletsInputs :
       Idle /\ loadWorklets(k, ts)
  \/ \E k \in Tasks : addModuleResolves(k)
  \/ \E k \in Tasks : addModuleRejects(k)
  \/ \E k \in Tasks : backoffElapses(k)

\* the inputs of the racing specification: two callers, the startup
\* workletLoader.init() of main.tsx and the init of useWorkletLoader, whose
\* calls run side by side over the default configs
Callers == {1, 2}
RacingTypes == {"layout-engine"}
RacingLists == {Some(<<"layout-engine", "gradient-engine">>)}

RacingInit ==
  /\ isWorkletSupported = TRUE
  /\ configs = [t \in WorkletTypes |->
                  defaultConfigs[CHOOSE i \in DOMAIN defaultConfigs :
                                   defaultConfigs[i].type = t]]
  /\ status = [t \in WorkletTypes |-> "pending"]
  /\ loadedWorklets = {}
  /\ calls = [k \in Callers |-> <<>>]
  /\ workletLog = [k \in Callers |-> <<>>]
  /\ promise = [k \in Callers |-> "none"]
  /\ request = [k \in Callers |-> NoRequest]

RacingNext ==
  \/ reset
  \/ \E k \in Callers, t \in RacingTypes : loadWorklet(k, t)
  \/ \E k \in Callers, ts \in RacingLists : loadWorklets(k, ts)
  \/ \E k \in Callers : addModuleResolves(k)
  \/ \E k \in Callers : addModuleRejects(k)
  \/ \E k \in Callers : backoffElapses(k)

(***************************************************************************)
(* The render engine (RenderEngine, getRenderEngine, renderElements)       *)
(***************************************************************************)
\* workletLoader.isWorkletLoaded(type)
isWorkletLoaded(type) == type \in loadedWorklets

Context(mode) == [mode |-> mode]
DEFAULT_CONTEXT == Context("auto")

\* RenderOptions; a maxDepth of 0 also stands for one that is not set, and
\* onError is NoHandler or the name of the handler
NoHandler == "<none>"
Options(recursive, maxDepth, onError) ==
  [recursive |-> recursive, maxDepth |-> maxDepth, onError |-> onError]
DEFAULT_OPTIONS == Options(TRUE, 20, NoHandler)

\* Partial<RenderContext> and RenderOptions as arguments: each key is Absent
\* or holds a value
PartialContext(mode) == [mode |-> mode]
PartialOptions(recursive, maxDepth, onError) ==
  [recursive |-> recursive, maxDepth |-> maxDepth, onError |-> onError]

\* { ...base, ...partial }: the keys the partial record holds win
spread(base, partial) ==
  [key \in DOMAIN base |->
     IF partial[key].def THEN partial[key].v ELSE base[key]]

\* props of the elements handed to the engine
RenderProps(workletType) ==
  [t |-> "object", workletType |-> workletType, workletData |-> Undefined]

\* a props.workletData that JSON.stringify cannot serialise (a cyclic object)
Circular == [t |-> "object", cyclic |-> TRUE]

\* what a render call gives back: a React element or null
ReactElement(tag, element, style, by) ==
  [t |-> "element", tag |-> tag, key |-> element.id, style |-> style,
   by |-> by]

\* the part of props.style the paint path writes
NoPaint == [backgroundImage |-> "", properties |-> {}]
Paint(backgroundImage, properties) ==
  [backgroundImage |-> backgroundImage, properties |-> properties]

renderContainer(element, context) ==
  ReactElement("div", element, NoPaint, "renderContainer")

renderText(element, context) ==
  ReactElement("span", element,
    IF context.mode \in {"worklet", "auto"} /\ isWorkletLoaded("text-renderer")
    THEN Paint("paint(textRenderer)",
               {"--text-content", "--text-color", "--font-size",
                "--font-family", "--font-weight"})
    ELSE NoPaint,
    "renderText")

renderImage(element, context) ==
  ReactElement("img", element, NoPaint, "renderImage")

renderButton(element, context) ==
  ReactElement("button", element, NoPaint, "renderButton")

renderInput(element, context) ==
  ReactElement("input", element, NoPaint, "renderInput")

renderCanvas(element, context) ==
  ReactElement("div", element,
    IF context.mode \in {"worklet", "auto"} /\ isWorkletLoaded("canvas-engine")
    THEN Paint("paint(canvasEngine)", {"--canvas-type", "--canvas-data"})
    ELSE NoPaint,
    "renderCanvas")

\* `${workletType}-renderer` and `paint(${workletType}Renderer)`
rendererOf(workletType) ==
  CASE workletType = "text" -> "text-renderer"
    [] workletType = "canvas" -> "canvas-renderer"
paintOf(workletType) ==
  CASE workletType = "text" -> "paint(textRenderer)"
    [] workletType = "canvas" -> "paint(canvasRenderer)"

renderWorklet(element, context) ==
  LET workletType == IF Falsy(element.props.workletType)
                     THEN "text"
                     ELSE element.props.workletType.str
  IN IF isWorkletLoaded(rendererOf(workletType))
     THEN IF element.props.workletData = Circular
          THEN Threw("Error")
          ELSE ReactElement("div", element,
                 Paint(paintOf(workletType),
                       {"--worklet-type", "--worklet-data"}),
                 "renderWorklet")
     ELSE ReactElement("div", element, NoPaint, "renderWorklet")

\* getBuiltInRenderer(type): rectangle, circle, flex and grid have renderers
\* of their own which do what renderContainer does
getBuiltInRenderer(type) ==
  CASE type = "text" -> "renderText"
    [] type = "image" -> "renderImage"
    [] type = "button" -> "renderButton"
    [] type = "input" -> "renderInput"
    [] type = "canvas" -> "renderCanvas"
    [] type = "worklet" -> "renderWorklet"
    [] OTHER -> "renderContainer"

\* renderer(element, this.context, children) for a built-in renderer
builtIn(renderer, element, context) ==
  CASE renderer = "renderText" -> renderText(element, context)
    [] renderer = "renderImage" -> renderImage(element, context)
    [] renderer = "renderButton" -> renderButton(element, context)
    [] renderer = "renderInput" -> renderInput(element, context)
    [] renderer = "renderCanvas" -> renderCanvas(element, context)
    [] renderer = "renderWorklet" -> renderWorklet(element, context)
    [] OTHER -> renderContainer(element, context)

\* the render functions callers register: one returns an element, one
\* returns null and one throws
Renderers == {"elementRenderer", "nullRenderer", "throwingRenderer"}
NoRenderer == "<none>"

\* customRenderer(element, this.context, children)
custom(renderer, element, context) ==
  CASE renderer = "elementRenderer" ->
         ReactElement("section", element, NoPaint, renderer)
    [] renderer = "nullRenderer" -> Null
    [] renderer = "throwingRenderer" -> Threw("Error")

\* this.options.maxDepth || 20
maxDepthOf(options) == IF options.maxDepth # 0 THEN options.maxDepth ELSE 20

\* element.state?.hidden
hidden(element) == element.state # Undefined /\ element.state.hidden

\* new RenderEngine(context, options)
RenderEngine(context, options) ==
  [context |-> spread(DEFAULT_CONTEXT, context),
   options |-> spread(DEFAULT_OPTIONS, options),
   depth |-> 0,
   customRenderers |-> <<>>]

\* this.customRenderers.get(type)
customRendererOf(engine, type) ==
  IF type \in DOMAIN engine.customRenderers
  THEN engine.customRenderers[type]
  ELSE NoRenderer

\* render with a catch block that leaves this.depth as the try block left it
renderWithoutCatchDecrement(engine, element) ==
  LET entered == [engine EXCEPT !.depth = @ + 1]
      customRenderer == customRendererOf(engine, element.type)
      result ==
        IF customRenderer # NoRenderer
        THEN custom(customRenderer, element, engine.context)
        ELSE builtIn(getBuiltInRenderer(element.type), element,
                     engine.context)
  IN IF engine.depth >= maxDepthOf(engine.options)
     THEN [engine |-> engine, output |-> Null, errors |-> <<>>]
     ELSE IF hidden(element)
     THEN [engine |-> entered, output |-> Null, errors |-> <<>>]
     ELSE IF result = Threw("Error")
     THEN [engine |-> entered, output |-> Null,
           errors |-> IF engine.options.onError # NoHandler
                      THEN <<element.id>>
                      ELSE <<>>]
     ELSE IF customRenderer # NoRenderer
     THEN [engine |-> entered, output |-> result, errors |-> <<>>]
     ELSE [engine |-> engine, output |-> result, errors |-> <<>>]

\* RenderEngine.render(element): the engine afterwards, the value returned
\* and the onError calls made
render(engine, element) ==
  LET entered == [engine EXCEPT !.depth = @ + 1]
      customRenderer == customRendererOf(engine, element.type)
      result ==
        IF customRenderer # NoRenderer
        THEN custom(customRenderer, element, engine.context)
        ELSE builtIn(getBuiltInRenderer(element.type), element,
                     engine.context)
  IN IF engine.depth >= maxDepthOf(engine.options)
     THEN [engine |-> engine, output |-> Null, errors |-> <<>>]
     ELSE IF hidden(element)
     THEN [engine |-> entered, output |-> Null, errors |-> <<>>]
     ELSE IF result = Threw("Error")
     THEN [engine |-> engine, output |-> Null,
           errors |-> IF engine.options.onError # NoHandler
                      THEN <<element.id>>
                      ELSE <<>>]
     ELSE IF customRenderer # NoRenderer
     THEN [engine |-> entered, output |-> result, errors |-> <<>>]
     ELSE [engine |-> engine, output |-> result, errors |-> <<>>]

\* elements.map(element => engine.render(element)): the engine afterwards
\* and the values the calls returned, in order
RECURSIVE renderEach(_, _)
renderEach(engine, list) ==
  IF list = <<>>
  THEN [engine |-> engine, outputs |-> <<>>, errors |-> <<>>]
  ELSE LET first == render(engine, Head(list))
           rest == renderEach(first.engine, Tail(list))
       IN [engine |-> rest.engine,
           outputs |-> <<first.output>> \o rest.outputs,
           errors |-> first.errors \o rest.errors]

\* .filter(Boolean)
RECURSIVE filterBoolean(_)
filterBoolean(outputs) ==
  IF outputs = <<>>
  THEN <<>>
  ELSE IF Head(outputs) = Null
       THEN filterBoolean(Tail(outputs))
       ELSE <<Head(outputs)>> \o filterBoolean(Tail(outputs))

\* getRenderEngine(context, options) on the module's renderEngineInstance
getRenderEngine(context, options) ==
  LET instance == IF renderEngineInstance = Null
                  THEN RenderEngine(
                         OrElse(context, PartialContext(Absent)),
                         OrElse(options,
                                PartialOptions(Absent, Absent, Absent)))
                  ELSE renderEngineInstance
      withContext == IF context.def
                     THEN [instance EXCEPT
                             !.context = spread(@, context.v)]
                     ELSE instance
  IN IF options.def
     THEN [withContext EXCEPT !.options = spread(@, options.v)]
     ELSE withContext

\* what the last call of the render API got and gave
Rendered(op, list, outputs, errors, depth) ==
  [op |-> op, elements |-> list, outputs |-> outputs, errors |-> errors,
   depth |-> depth]

\* the module before its first getRenderEngine call
RenderInit ==
  /\ renderEngineInstance = Null
  /\ rendered = NoResult

\* renderElement(element, context, options)
renderElement(element, context, options) ==
  LET engine == getRenderEngine(context, options)
      done == render(engine, element)
  IN /\ renderEngineInstance' = done.engine
     /\ rendered' = Rendered("renderElement", <<element>>, <<done.output>>,
                             done.errors, engine.depth)
     /\ UNCHANGED notRender

\* renderElements(elements, context, options)
renderElements(list, context, options) ==
  LET engine == getRenderEngine(context, options)
      done == renderEach(engine, list)
  IN /\ renderEngineInstance' = done.engine
     /\ rendered' = Rendered("renderElements", list,
                             filterBoolean(done.outputs), done.errors,
                             engine.depth)
     /\ UNCHANGED notRender

\* renderEngine.getInstance(context, options)
getInstance(context, options) ==
  /\ renderEngineInstance' = getRenderEngine(context, options)
  /\ rendered' = NoResult
  /\ UNCHANGED notRender

\* getRenderEngine(context, options).registerRenderer(type, renderer)
registerRenderer(type, renderer, context, options) ==
  LET engine == getRenderEngine(context, options)
      others == DOMAIN engine.customRenderers \ {type}
  IN /\ renderEngineInstance' =
          [engine EXCEPT !.customRenderers =
             [t \in others \cup {type} |->
                IF t = type THEN renderer ELSE engine.customRenderers[t]]]
     /\ rendered' = NoResult
     /\ UNCHANGED notRender

\* getRenderEngine().unregisterRenderer(type)
unregisterRenderer(type) ==
  LET engine == getRenderEngine(Absent, Absent)
      others == DOMAIN engine.customRenderers \ {type}
  IN /\ type \in DOMAIN engine.customRenderers
     /\ renderEngineInstance' =
          [engine EXCEPT !.customRenderers =
             [t \in others |-> engine.customRenderers[t]]]
     /\ rendered' = NoResult
     /\ UNCHANGED notRender

(***************************************************************************)
(* Inputs of the render specification                                      *)
(***************************************************************************)
\* the lower maxDepth a caller sets
LowMaxDepth == 2

RenderElementOf(type, isHidden, workletType) ==
  ElementData(type, type, type, EmptyStyle, State(FALSE, isHidden),
              Metadata(1), Absent, Absent, RenderProps(workletType))

\* one visible element per type with a renderer of its own, two types
\* without (a known and an unknown one), a worklet element naming the canvas
\* worklet, a hidden element and an element without a state object
RenderInputs ==
  {RenderElementOf(type, FALSE, Undefined) :
     type \in {"text", "image", "button", "input", "container", "canvas",
               "worklet", "line", "video"}}
    \cup {[RenderElementOf("worklet", FALSE, Str("canvas"))
             EXCEPT !.id = "worklet2"],
          [RenderElementOf("worklet", FALSE, Undefined)
             EXCEPT !.id = "worklet3", !.props.workletData = Circular],
          [RenderElementOf("text", TRUE, Undefined) EXCEPT !.id = "text2"],
          [RenderElementOf("image", FALSE, Undefined)
             EXCEPT !.id = "image2", !.state = Undefined]}

ById(id) == CHOOSE e \in RenderInputs : e.id = id

RenderListInputs ==
  {<<>>,
   <<ById("text"), ById("text2"), ById("worklet"), ById("worklet3")>>,
   <<ById("text2"), ById("canvas"), ById("text2"), ById("video")>>,
   <<ById("worklet3"), ById("image"), ById("worklet3")>>}

ContextInputs ==
  {Absent} \cup
    {Some(PartialContext(Some(m))) :
       m \in {"dom", "canvas", "worklet", "auto"}}

OptionsInputs ==
  {Absent,
   Some(PartialOptions(Absent, Some(LowMaxDepth), Absent)),
   Some(PartialOptions(Absent, Some(0), Absent)),
   Some(PartialOptions(Absent, Absent, Some("onError")))}

\* the types callers register renderers for
CustomTypes == {"text"}

\* the loaded worklets the engine may find
LoadedInputs == {{}, {"text-renderer"}, {"text-renderer", "canvas-engine"}}

\* the registry after the worklets of one of LoadedInputs were loaded
WorkletLoaded ==
  /\ isWorkletSupported = TRUE
  /\ configs = [t \in WorkletTypes |->
                  defaultConfigs[CHOOSE i \in DOMAIN defaultConfigs :
                                   defaultConfigs[i].type = t]]
  /\ loadedWorklets \in LoadedInputs
  /\ status = [t \in WorkletTypes |->
                 IF t \in loadedWorklets THEN "loaded" ELSE "pending"]
  /\ calls = [k \in Tasks |-> <<>>]
  /\ workletLog = [k \in Tasks |-> <<>>]
  /\ promise = [k \in Tasks |-> "none"]
  /\ request = [k \in Tasks |-> NoRequest]

\* the context and the options reach the engine through getInstance; the
\* other calls pass none
RenderNext ==
  \/ \E c \in ContextInputs, o \in OptionsInputs : getInstance(c, o)
  \/ \E e \in RenderInputs : renderElement(e, Absent, Absent)
  \/ \E l \in RenderListInputs : renderElements(l, Absent, Absent)
  \/ \E t \in CustomTypes, r \in Renderers :
       registerRenderer(t, r, Absent, Absent)
  \/ \E t \in CustomTypes : unregisterRenderer(t)

(***************************************************************************)
(* ErrorBoundary (web/src/components/ui/ErrorBoundary.tsx)                 *)
(***************************************************************************)
MaxCaught == 3   \* errors one boundary is handed before the page reloads

BoundaryState(hasError, error, errorInfo, showDetails) ==
  [hasError |-> hasError, error |-> error, errorInfo |-> errorInfo,
   showDetails |-> showDetails]

\* this.state as the constructor leaves it
initialState == BoundaryState(FALSE, Null, Null, FALSE)

\* the props besides children: fallback is a ReactNode or Undefined, onError
\* says whether the callback was passed
BoundaryProps(fallback, onError) == [fallback |-> fallback, onError |-> onError]

JsError(message) == [t |-> "Error", message |-> message]
ErrorInfo(componentStack) == [componentStack |-> componentStack]
FallbackNode == [t |-> "element", tag |-> "div"]

\* React's setState: the partial state is merged into the state
setState(state, partial) ==
  [k \in DOMAIN state |-> IF k \in DOMAIN partial THEN partial[k] ELSE state[k]]

getDerivedStateFromErrorKeepingHasError(error) ==
  [error |-> error]

getDerivedStateFromError(error) ==
  [hasError |-> TRUE, error |-> error]

\* componentDidCatch: the state it sets and the onError calls it leaves
componentDidCatch(state, p, log, error, errorInfo) ==
  [state |-> setState(state, [errorInfo |-> errorInfo]),
   log |-> IF p.onError
           THEN Append(log, [error |-> error, errorInfo |-> errorInfo])
           ELSE log]

\* what render() returns
ErrorBoundaryRender(state, p) ==
  IF state.hasError
  THEN IF ~Falsy(p.fallback)
       THEN [shows |-> "fallback", node |-> p.fallback]
       ELSE [shows |-> "default", error |-> state.error,
             details |-> state.showDetails /\ state.errorInfo # Null]
  ELSE [shows |-> "children"]

BoundaryInit ==
  /\ boundary = initialState
  /\ boundaryProps \in {BoundaryProps(f, h) :
                  f \in {Undefined, Null, FallbackNode}, h \in BOOLEAN}
  /\ view = ErrorBoundaryRender(initialState, boundaryProps)
  /\ caught = <<>>
  /\ onErrorCalls = <<>>

\* a child throws while it renders: React calls getDerivedStateFromError,
\* renders the boundary again and calls componentDidCatch when it commits
childThrows(error, errorInfo) ==
  /\ view.shows = "children"
  /\ Len(caught) < MaxCaught
  /\ LET derived == setState(boundary, getDerivedStateFromError(error))
         did == componentDidCatch(derived, boundaryProps, onErrorCalls, error,
                                   errorInfo)
     IN /\ boundary' = did.state
        /\ onErrorCalls' = did.log
        /\ caught' = Append(caught, [error |-> error, errorInfo |-> errorInfo])
        /\ view' = ErrorBoundaryRender(did.state, boundaryProps)
  /\ UNCHANGED <<boundaryProps, notBoundary>>

handleReset ==
  /\ boundary' = setState(boundary, initialState)
  /\ view' = ErrorBoundaryRender(boundary', boundaryProps)
  /\ UNCHANGED <<boundaryProps, caught, onErrorCalls, notBoundary>>

\* window.location.reload(): the page and with it the boundary start again
handleReload ==
  /\ boundary' = initialState
  /\ view' = ErrorBoundaryRender(initialState, boundaryProps)
  /\ caught' = <<>>
  /\ onErrorCalls' = <<>>
  /\ UNCHANGED <<boundaryProps, notBoundary>>

toggleDetails ==
  /\ boundary' = setState(boundary, [showDetails |-> ~boundary.showDetails])
  /\ view' = ErrorBoundaryRender(boundary', boundaryProps)
  /\ UNCHANGED <<boundaryProps, caught, onErrorCalls, notBoundary>>

\* the parent renders again with the same boundaryProps
parentRenders ==
  /\ view' = ErrorBoundaryRender(boundary, boundaryProps)
  /\ UNCHANGED <<boundary, boundaryProps, caught, onErrorCalls, notBoundary>>

BoundaryErrors == {JsError("E1"), JsError("E2")}
BoundaryInfos == {ErrorInfo("at Child")}

BoundaryNext ==
  \/ \E e \in BoundaryErrors, i \in BoundaryInfos : childThrows(e, i)
  \/ handleReset
  \/ handleReload
  \/ toggleDetails
  \/ parentRenders

(***************************************************************************)
(* Color utilities                                                         *)
(***************************************************************************)
MaxDigits == 6   \* characters after the optional # of a hexToRgb argument

\* a string is the sequence of its characters
Chars == {"#", "0", "9", "a", "F", "g"}

\* parseInt(c, 16) for one character of [a-f\d], case ignored
hexDigit ==
  [c \in {"0", "1", "2", "3", "4", "5", "6", "7", "8", "9", "a", "b", "c",
           "d", "e", "f", "A", "B", "C", "D", "E", "F"} |->
     CASE c = "0" -> 0 [] c = "1" -> 1 [] c = "2" -> 2 [] c = "3" -> 3
       [] c = "4" -> 4 [] c = "5" -> 5 [] c = "6" -> 6 [] c = "7" -> 7
       [] c = "8" -> 8 [] c = "9" -> 9
       [] c \in {"a", "A"} -> 10 [] c \in {"b", "B"} -> 11
       [] c \in {"c", "C"} -> 12 [] c \in {"d", "D"} -> 13
       [] c \in {"e", "E"} -> 14 [] c \in {"f", "F"} -> 15]

\* parseInt(pair, 16) for two such characters
parseInt16(pair) == 16 * hexDigit[pair[1]] + hexDigit[pair[2]]

\* /^#?([a-f\d]{2})([a-f\d]{2})([a-f\d]{2})$/i.exec(s): the three groups,
\* or Null
execHex(s) ==
  LET body == IF s # <<>> /\ s[1] = "#" THEN Tail(s) ELSE s
  IN IF Len(body) = 6 /\ \A i \in 1..6 : body[i] \in DOMAIN hexDigit
     THEN <<SubSeq(body, 1, 2), SubSeq(body, 3, 4), SubSeq(body, 5, 6)>>
     ELSE Null

RGB(r, g, b) == [r |-> r, g |-> g, b |-> b]

hexToRgb(s) ==
  LET result == execHex(s)
  IN IF result = Null THEN Threw("Invalid hex color")
     ELSE RGB(parseInt16(result[1]), parseInt16(result[2]),
              parseInt16(result[3]))

ColorIdle == hex = <<>> /\ rgb = NoResult

\* the strings handed to hexToRgb: up to MaxDigits characters, with and
\* without a leading #
Strings(n) == UNION {[1..k -> Chars \ {"#"}] : k \in 0..n}
HexInputs ==
  Strings(MaxDigits) \cup {<<"#">> \o s : s \in Strings(MaxDigits)}
    \cup {<<"#", "#", "0", "0">>, <<"0", "#", "0", "0", "0", "0", "0">>}

\* the argument of the one call of a run
ColorInit == hex \in HexInputs /\ rgb = NoResult

callHexToRgb ==
  /\ rgb = NoResult
  /\ rgb' = hexToRgb(hex)
  /\ UNCHANGED <<hex, notColor>>

ColorNext == callHexToRgb

(***************************************************************************)
(* Specifications                                                          *)
(***************************************************************************)
TreeIdle == TreeInit
WorkletIdle == WorkletInit /\ isWorkletSupported
RenderIdle == RenderInit
BoundaryIdle == BoundaryInit /\ boundaryProps = BoundaryProps(Undefined, FALSE)
UiIdle == BoundaryIdle /\ ColorIdle

InitTree ==
  TreeInit /\ SchemaIdle /\ StoreInit /\ WorkletIdle /\ RenderIdle /\ UiIdle
SpecTree == InitTree /\ [][TreeNext]_vars

InitValidate ==
  /\ ValidateInit /\ TreeIdle /\ StoreInit /\ WorkletIdle /\ RenderIdle
  /\ UiIdle
SpecValidate == InitValidate /\ [][ValidateNext]_vars

InitSanitize ==
  /\ SanitizeInit /\ TreeIdle /\ StoreInit /\ WorkletIdle /\ RenderIdle
  /\ UiIdle
SpecSanitize == InitSanitize /\ [][SanitizeNext]_vars

InitStore ==
  StoreInit /\ TreeIdle /\ SchemaIdle /\ WorkletIdle /\ RenderIdle /\ UiIdle
SpecStore == InitStore /\ [][StoreNext]_vars

InitWorklet ==
  WorkletInit /\ TreeIdle /\ SchemaIdle /\ StoreInit /\ RenderIdle /\ UiIdle
SpecWorklet == InitWorklet /\ [][WorkletNext]_vars

InitRacing ==
  RacingInit /\ TreeIdle /\ SchemaIdle /\ StoreInit /\ RenderIdle /\ UiIdle
SpecRacing == InitRacing /\ [][RacingNext]_vars

InitRender ==
  /\ RenderInit /\ WorkletLoaded /\ TreeIdle /\ SchemaIdle /\ StoreInit
  /\ UiIdle
SpecRender == InitRender /\ [][RenderNext]_vars

InitExport == InitStore
SpecExport == InitExport /\ [][ExportNext]_vars

InitHistory == InitStore
SpecHistory == InitHistory /\ [][HistoryNext]_vars

InitLinks == InitStore
SpecLinks == InitLinks /\ [][LinksNext]_vars

InitSelection == InitStore
SpecSelection == InitSelection /\ [][SelectionNext]_vars

InitRoot == InitStore
SpecRoot == InitRoot /\ [][RootNext]_vars

InitCopy == InitStore
SpecCopy == InitCopy /\ [][CopyNext]_vars

InitPointer == InitStore
SpecPointer == InitPointer /\ [][PointerNext]_vars

InitColor ==
  /\ ColorInit /\ BoundaryIdle /\ TreeIdle /\ SchemaIdle /\ StoreInit
  /\ WorkletIdle /\ RenderIdle
SpecColor == InitColor /\ [][ColorNext]_vars

InitBoundary ==
  /\ BoundaryInit /\ ColorIdle /\ TreeIdle /\ SchemaIdle /\ StoreInit
  /\ WorkletIdle /\ RenderIdle
SpecBoundary == InitBoundary /\ [][BoundaryNext]_vars

(***************************************************************************)
(* Properties of SchemaValidator.validateElement (SpecValidate)            *)
(***************************************************************************)
CountCode(issues, code) ==
  Cardinality({i \in DOMAIN issues : issues[i].code = code})

HasIssue(issues, field, code) ==
  \E i \in DOMAIN issues : issues[i].field = field /\ issues[i].code = code

BoolToNat(b) == IF b THEN 1 ELSE 0

\* the required props the rules name for a type
RequiredPropsOf(type) ==
  CASE type = "text" -> {"content"}
    [] type = "image" -> {"src"}
    [] OTHER -> {}

IsSet(value) == value # Undefined /\ value # Null

\* C2: validateElement(e).valid holds exactly when errors is empty; errors
\* holds exactly ELEMENT_MISSING_ID iff e.id is empty, ELEMENT_MISSING_TYPE
\* iff e.type is empty, one PROPERTY_MISSING per falsy required prop of the
\* type and the failures of the type's own style rules (text fontSize, image
\* width); a missing name, a non-empty childrenIds and a failing common
\* width/height/color rule only add warnings and never change valid
ValidateElementErrorsExact ==
  (vres # NoResult /\ ~vres.threw) =>
    LET e == elem
        errs == vres.errors
        warns == vres.warnings
        missingProps ==
          {p \in RequiredPropsOf(e.type) : Falsy(propOf(e.props, p))}
        fontSizeFails ==
          e.type = "text" /\ IsSet(e.style.fontSize)
            /\ ~fontSizeValidator(e.style.fontSize)
        widthFails == IsSet(e.style.width) /\ ~sizeValidator(e.style.width)
        heightFails == IsSet(e.style.height) /\ ~sizeValidator(e.style.height)
        colorFails == IsSet(e.style.color) /\ ~colorValidator(e.style.color)
        imageWidthFails == e.type = "image" /\ widthFails
    IN /\ vres.valid <=> (errs = <<>>)
       /\ CountCode(errs, "ELEMENT_MISSING_ID") = BoolToNat(e.id = "")
       /\ CountCode(errs, "ELEMENT_MISSING_TYPE") = BoolToNat(e.type = "")
       /\ CountCode(errs, "PROPERTY_MISSING") = Cardinality(missingProps)
       /\ \A p \in missingProps :
            HasIssue(errs, <<"props", p>>, "PROPERTY_MISSING")
       /\ CountCode(errs, "STYLE_INVALID_FONT_SIZE") = BoolToNat(fontSizeFails)
       /\ CountCode(errs, "STYLE_INVALID_WIDTH") = BoolToNat(imageWidthFails)
       /\ Len(errs) = BoolToNat(e.id = "") + BoolToNat(e.type = "")
                        + Cardinality(missingProps) + BoolToNat(fontSizeFails)
                        + BoolToNat(imageWidthFails)
       /\ CountCode(warns, "ELEMENT_MISSING_NAME") = BoolToNat(e.name = "")
       /\ CountCode(warns, "CHILDREN_VALIDATION_REQUIRED") =
            BoolToNat(e.childrenIds.def /\ e.childrenIds.v # <<>>)
       /\ CountCode(warns, "STYLE_INVALID_WIDTH") = BoolToNat(widthFails)
       /\ CountCode(warns, "STYLE_INVALID_HEIGHT") = BoolToNat(heightFails)
       /\ CountCode(warns, "STYLE_INVALID_COLOR") = BoolToNat(colorFails)
       /\ vres.valid <=>
            /\ e.id # ""
            /\ e.type # ""
            /\ missingProps = {}
            /\ ~fontSizeFails
            /\ ~imageWidthFails

\* an image whose width fails both its own rule (an error) and the common
\* rule (a warning) has been validated
ValidateElementWitness ==
  /\ vres # NoResult
  /\ ~vres.threw
  /\ elem.type = "image"
  /\ HasIssue(vres.errors, <<"style", "width">>, "STYLE_INVALID_WIDTH")
  /\ HasIssue(vres.warnings, <<"style", "width">>, "STYLE_INVALID_WIDTH")
  /\ HasIssue(vres.warnings, <<"name">>, "ELEMENT_MISSING_NAME")

(***************************************************************************)
(* Properties of SchemaValidator.sanitizeElement (SpecSanitize)            *)
(***************************************************************************)
MissingCodes ==
  {"ELEMENT_MISSING_ID", "ELEMENT_MISSING_TYPE", "ELEMENT_MISSING_NAME"}

\* C4: sanitizeElement(e) returns a record with a non-empty id, type and
\* name and a defined style, state and metadata, keeps every field of e that
\* was already set and leaves e as it was; validateAndSanitize(e).result
\* never holds ELEMENT_MISSING_ID, ELEMENT_MISSING_TYPE or
\* ELEMENT_MISSING_NAME; sanitizing the result again changes nothing
SanitizeElementCompletes ==
  (san # NoResult) =>
    /\ san.id # "" /\ san.type # "" /\ san.name # ""
    /\ san.style # Undefined /\ san.state # Undefined
    /\ san.metadata # Undefined
    /\ elem0.id # "" => san.id = elem0.id
    /\ elem0.type # "" => san.type = elem0.type
    /\ elem0.name # "" => san.name = elem0.name
    /\ elem0.style # Undefined => san.style = elem0.style
    /\ elem0.state # Undefined => san.state = elem0.state
    /\ elem0.metadata # Undefined => san.metadata = elem0.metadata
    /\ san.parentId = elem0.parentId
    /\ san.childrenIds = elem0.childrenIds
    /\ san.props = elem0.props
    /\ elem = elem0
    /\ (vres # NoResult) =>
         /\ ~vres.threw
         /\ \A c \in MissingCodes :
              CountCode(vres.errors, c) = 0 /\ CountCode(vres.warnings, c) = 0
    /\ (san2 # NoResult) => san2 = san

\* a record with no id, type, name, style, state or metadata went through
\* validateAndSanitize and its result was sanitized once more
SanitizeElementWitness ==
  /\ san # NoResult /\ vres # NoResult /\ san2 # NoResult
  /\ elem0.id = "" /\ elem0.type = "" /\ elem0.name = ""
  /\ elem0.style = Undefined /\ elem0.state = Undefined
  /\ elem0.metadata = Undefined

(***************************************************************************)
(* Properties of the element store's validation actions (SpecStore)        *)
(***************************************************************************)
\* C3: validateElement(id) and validateProject() of the store report every
\* defect in the returned lists and never throw, whatever records the public
\* actions (importProject and updateElement included) left in the store; an
\* unknown id gives valid = false with the single error ELEMENT_NOT_FOUND,
\* no project gives PROJECT_NOT_LOADED
StoreValidationNeverThrows ==
  /\ (outcome # NoResult /\ outcome.op = "validateElement") =>
       /\ ~outcome.result.threw
       /\ outcome.id \notin DOMAIN elements =>
            /\ ~outcome.result.valid
            /\ outcome.result.errors = <<Issue(<<"id">>, "ELEMENT_NOT_FOUND")>>
  /\ (outcome # NoResult /\ outcome.op = "validateProject") =>
       /\ ~outcome.result.threw
       /\ currentProject = Null =>
            /\ ~outcome.result.valid
            /\ outcome.result.errors =
                 <<Issue(<<"project">>, "PROJECT_NOT_LOADED")>>

(***************************************************************************)
(* Properties of the worklet registry (SpecWorklet)                        *)
(***************************************************************************)
Max(a, b) == IF a >= b THEN a ELSE b

\* positions of a log that hold an addModule call for a type's url
AttemptsOf(log, type) ==
  {p \in DOMAIN log : log[p].op = "addModule" /\ log[p].url = Url(type)}

\* positions of a log that hold an event of a kind for a type
EventsOf(log, kind, type) ==
  {p \in DOMAIN log :
     /\ log[p].op = "event"
     /\ log[p].type = kind
     /\ kind # "progress"
     /\ log[p].worklet = type}

\* positions of a log where a loadWorklet call at a stack depth starts
CallsAt(log, depth) ==
  {p \in DOMAIN log : log[p].op = "called" /\ log[p].depth = depth}

\* a task's call of one kind has settled
Done(k, fn) ==
  request[k].fn = fn /\ promise[k] \in {"resolved", "rejected"}

\* C5: a single loadWorklet(type) call makes at most max(1, retryCount)
\* addModule calls for the type's url and stops at the first success; it
\* ends with status 'loaded' and one 'load' event if an attempt succeeded,
\* otherwise with status 'error' and exactly one 'error' event after the
\* last attempt; a call for an already loaded type makes no attempt and
\* emits no event
LoadWorkletRetriesAndEvents ==
  \A k \in Tasks :
    Done(k, "loadWorklet") =>
      LET type == request[k].types[1]
          log == workletLog[k]
          attempts == AttemptsOf(log, type)
          successes == {p \in attempts : log[p].ok}
          retryCount == IF configs[type].retryCount.def
                        THEN configs[type].retryCount.v
                        ELSE 0
          kinds == {"loadstart", "load", "error"}
      IN /\ Cardinality(attempts) <= Max(1, retryCount)
         /\ \A p \in successes : \A q \in attempts : q <= p
         /\ IF successes # {}
            THEN /\ status[type] = "loaded"
                 /\ Cardinality(EventsOf(log, "load", type)) = 1
            ELSE IF request[k].status[type] = "loaded"
            THEN /\ attempts = {}
                 /\ \A kind \in kinds : EventsOf(log, kind, type) = {}
            ELSE /\ status[type] = "error"
                 /\ Cardinality(EventsOf(log, "error", type)) = 1
                 /\ \A e \in EventsOf(log, "error", type) :
                      \A p \in attempts : p < e

\* C6: loadWorklet(type) makes its own addModule attempts only while every
\* type of its config.dependencies has status 'loaded', and the calls it
\* makes for its dependencies come in the order of that list
DependenciesLoadedBeforeAttempt ==
  \A k \in Tasks :
    /\ \A i \in DOMAIN calls[k] :
         LET f == calls[k][i]
         IN (f.fn = "loadWorklet" /\ f.pc \in {"addModule", "backoff"}) =>
              \A d \in Range(dependenciesOf(f.config)) : status[d] = "loaded"
    /\ request[k].fn = "loadWorklet" =>
         LET deps == dependenciesOf(configs[request[k].types[1]])
             log == workletLog[k]
         IN \A p, q \in CallsAt(log, 2) :
              p < q =>
                \E i, j \in DOMAIN deps :
                  /\ i < j
                  /\ deps[i] = log[p].worklet
                  /\ deps[j] = log[q].worklet

\* the retry loop of the call that settles at position p of the log ran out:
\* the entry before is its 'error' event and the one before that a failed
\* addModule of its url
Exhausted(log, p) ==
  /\ log[p].op = "settled"
  /\ p > 2
  /\ log[p - 1] = Event("error", log[p].worklet)
  /\ log[p - 2] = AddModule(Url(log[p].worklet), FALSE)

\* C7: loadWorklet rejects when a worklet with isRequired runs out of
\* retries and resolves, with the worklet not loaded, when a non-required
\* one does; loadWorklets(types) calls loadWorklet for the types in order,
\* stops at the first rejection of a required type, so that nothing happens
\* to the later types, and goes on to the next type after any other outcome
RequiredFailureStopsLoading ==
  \A k \in Tasks :
    LET log == workletLog[k]
        types == request[k].types
        started == CallsAt(log, 2)
        n == Cardinality(started)
    IN /\ \A p \in DOMAIN log :
            Exhausted(log, p) =>
              /\ (log[p].how = "rejected") <=>
                   isRequired(configs[log[p].worklet])
              /\ \A q \in AttemptsOf(log, log[p].worklet) :
                   q < p => ~log[q].ok
              /\ p = Len(log) => status[log[p].worklet] = "error"
       /\ request[k].fn = "loadWorklets" =>
            /\ n <= Len(types)
            /\ \A p \in started :
                 log[p].worklet =
                   types[Cardinality({q \in started : q <= p})]
            /\ \A p \in DOMAIN log :
                 (log[p].op = "settled" /\ log[p].depth = 2) =>
                   LET type == log[p].worklet
                       stop == log[p].how = "rejected"
                                 /\ isRequired(configs[type])
                       i == Cardinality({q \in started : q <= p})
                   IN IF stop
                      THEN /\ p + 1 = Len(log)
                           /\ log[p + 1] = Settled("*", 1, "rejected")
                           /\ promise[k] = "rejected"
                      ELSE /\ p < Len(log)
                           /\ log[p + 1] = Progress(i, Len(types))
                           /\ IF i < Len(types)
                              THEN log[p + 2] = Called(types[i + 1], 2)
                              ELSE /\ log[p + 2] = Settled("*", 1, "resolved")
                                   /\ promise[k] = "resolved"
            /\ promise[k] = "resolved" => n = Len(types)
            /\ promise[k] = "rejected" =>
                 /\ n > 0
                 /\ isRequired(configs[types[n]])
                 /\ \A j \in DOMAIN types :
                      (j > n /\ types[j] \notin Range(SubSeq(types, 1, n))
                         /\ \A i \in 1..n :
                              types[j] \notin
                                Range(dependenciesOf(configs[types[i]]))) =>
                        status[types[j]] = request[k].status[types[j]]

\* loadWorklets went past the exhausted retries of the non-required
\* layout-engine, stopped when the required canvas-engine ran out of retries
\* and never called loadWorklet for gradient-engine
RequiredFailureWitness ==
  \E k \in Tasks :
    LET log == workletLog[k]
    IN /\ Done(k, "loadWorklets")
       /\ promise[k] = "rejected"
       /\ request[k].types =
            <<"layout-engine", "canvas-engine", "gradient-engine">>
       /\ \E p, q \in DOMAIN log :
            /\ p < q
            /\ Exhausted(log, p) /\ log[p].worklet = "layout-engine"
            /\ log[p].how = "resolved"
            /\ Exhausted(log, q) /\ log[q].worklet = "canvas-engine"
            /\ log[q].how = "rejected"
       /\ \A p \in DOMAIN log :
            log[p].op = "called" => log[p].worklet # "gradient-engine"
       /\ status["layout-engine"] = "error"
       /\ status["canvas-engine"] = "error"

(***************************************************************************)
(* Properties of the render engine (SpecRender)                            *)
(***************************************************************************)
\* the tag the type of an element stands for
TagOf(type) ==
  CASE type = "text" -> "span"
    [] type = "image" -> "img"
    [] type = "button" -> "button"
    [] type = "input" -> "input"
    [] OTHER -> "div"

\* what the renderer the engine picks for an element gives: an element,
\* null or an exception
RendererResult(engine, element) ==
  IF customRendererOf(engine, element.type) # NoRenderer
  THEN custom(customRendererOf(engine, element.type), element, engine.context)
  ELSE builtIn(getBuiltInRenderer(element.type), element, engine.context)

\* C8: render of a non-hidden element whose type has no custom renderer
\* returns a React element with the tag of the type (text -> span, image ->
\* img, button -> button, input -> input, any other type -> div); render of
\* an element with state.hidden = true returns null
RenderTagByType ==
  (rendered # NoResult /\ rendered.op = "renderElement") =>
    LET element == rendered.elements[1]
        output == rendered.outputs[1]
    IN /\ hidden(element) => output = Null
       /\ (~hidden(element)
             /\ customRendererOf(renderEngineInstance, element.type)
                  = NoRenderer
             /\ RendererResult(renderEngineInstance, element)
                  # Threw("Error")) =>
            /\ output # Null
            /\ output.tag = TagOf(element.type)

\* the worklet whose paint function a background names
WorkletOfPaint(backgroundImage) ==
  CASE backgroundImage = "paint(textRenderer)" -> "text-renderer"
    [] backgroundImage = "paint(canvasEngine)" -> "canvas-engine"
    [] backgroundImage = "paint(canvasRenderer)" -> "canvas-renderer"

\* C9: an element a built-in renderer returned has a paint(...) background
\* or worklet custom properties only if the mode is 'worklet' or 'auto' and
\* the worklet of that paint function is loaded; in mode 'dom' or 'canvas'
\* there is none
PaintPathModeGated ==
  (rendered # NoResult) =>
    \A i \in DOMAIN rendered.outputs :
      LET output == rendered.outputs[i]
      IN (output # Null /\ output.style # NoPaint) =>
           /\ renderEngineInstance.context.mode \in {"worklet", "auto"}
           /\ output.style.backgroundImage # ""
           /\ isWorkletLoaded(WorkletOfPaint(output.style.backgroundImage))

\* the elements of a list a render call has an output for: the visible ones
\* whose renderer neither throws nor returns null
RECURSIVE Visible(_, _)
Visible(engine, list) ==
  IF list = <<>>
  THEN <<>>
  ELSE LET e == Head(list)
           skipped ==
             \/ hidden(e)
             \/ RendererResult(engine, e) \in {Null, Threw("Error")}
       IN IF skipped
          THEN Visible(engine, Tail(list))
          ELSE <<e.id>> \o Visible(engine, Tail(list))

\* C10: after a render call the depth counter has the value it had before
\* the call, whether the element was rendered, hidden, handled by a custom
\* renderer or failed, and renderElements(list) returns one output per
\* visible element of the list, in order
DepthRestoredAfterRender ==
  (rendered # NoResult) =>
    /\ renderEngineInstance.depth = rendered.depth
    /\ rendered.op = "renderElements" =>
         [i \in DOMAIN rendered.outputs |-> rendered.outputs[i].key]
           = Visible(renderEngineInstance, rendered.elements)

\* C11: with a renderer r registered for its type (the last one registered,
\* none after unregisterRenderer), render of a non-hidden element returns
\* what r(element, context, children) returns and not the built-in
\* renderer's element; with none registered the built-in renderer is used;
\* a hidden element is never handed to r
CustomRendererUsed ==
  (rendered # NoResult /\ rendered.op = "renderElement") =>
    LET element == rendered.elements[1]
        output == rendered.outputs[1]
        r == customRendererOf(renderEngineInstance, element.type)
        result == RendererResult(renderEngineInstance, element)
    IN /\ hidden(element) => output = Null
       /\ (~hidden(element) /\ r # NoRenderer /\ result # Threw("Error")) =>
            output = custom(r, element, renderEngineInstance.context)
       /\ (~hidden(element) /\ r = NoRenderer /\ result # Threw("Error")) =>
            /\ output # Null
            /\ output.by = getBuiltInRenderer(element.type)

\* the elements of a list whose renderer throws, in order
RECURSIVE Failing(_, _)
Failing(engine, list) ==
  IF list = <<>>
  THEN <<>>
  ELSE IF ~hidden(Head(list))
            /\ RendererResult(engine, Head(list)) = Threw("Error")
       THEN <<Head(list).id>> \o Failing(engine, Tail(list))
       ELSE Failing(engine, Tail(list))

\* no element of the list takes one of the paths on which render returns
\* with the depth counter raised
NoLeak(engine, list) ==
  \A i \in DOMAIN list :
    /\ ~hidden(list[i])
    /\ \/ customRendererOf(engine, list[i].type) = NoRenderer
       \/ RendererResult(engine, list[i]) = Threw("Error")

\* C12: a render call whose built-in or custom renderer throws returns null,
\* calls options.onError exactly once with the element when onError is
\* configured and leaves the engine as it was before the call, so that later
\* render calls behave as if the failing call had not happened
RenderErrorContained ==
  (rendered # NoResult
     /\ rendered.depth < maxDepthOf(renderEngineInstance.options)
     /\ NoLeak(renderEngineInstance, rendered.elements)) =>
    LET failing == Failing(renderEngineInstance, rendered.elements)
    IN /\ rendered.errors =
            IF renderEngineInstance.options.onError # NoHandler
            THEN failing
            ELSE <<>>
       /\ renderEngineInstance.depth = rendered.depth
       /\ \A i \in DOMAIN rendered.outputs :
            rendered.outputs[i] = Null \/
              rendered.outputs[i].key \notin Range(failing)
       /\ rendered.op = "renderElement" =>
            (failing # <<>> <=> rendered.outputs = <<Null>>)
       /\ rendered.op = "renderElements" =>
            Len(rendered.outputs) + Len(failing) = Len(rendered.elements)

\* renderElements went through a list in which the built-in renderer of the
\* first and the last element threw, with onError configured
RenderErrorWitness ==
  /\ rendered # NoResult
  /\ rendered.op = "renderElements"
  /\ rendered.errors = <<"worklet3", "worklet3">>
  /\ Len(rendered.outputs) = 1
  /\ renderEngineInstance.options.onError # NoHandler
  /\ renderEngineInstance.depth = rendered.depth

\* render of a text element went to a registered renderer that threw, with
\* onError configured
CustomRendererThrew ==
  /\ rendered # NoResult
  /\ rendered.op = "renderElement"
  /\ rendered.elements[1].id = "text"
  /\ rendered.errors = <<"text">>
  /\ rendered.outputs = <<Null>>

(***************************************************************************)
(* Properties of ErrorBoundary (SpecBoundary)                              *)
(***************************************************************************)
\* the screen render() owes while hasError is set: the fallback prop if one
\* was given (a node that passes render's `if (fallback)`), else the default
\* error screen
FallbackShown ==
  IF ~Falsy(boundaryProps.fallback)
  THEN view = [shows |-> "fallback", node |-> boundaryProps.fallback]
  ELSE view.shows = "default" /\ view.error = boundary.error

\* C13: once the boundary has caught an error of a child, hasError is set
\* and every render shows the fallback (the fallback prop if given, else the
\* default error screen) and never the children until handleReset is called
\* (or the page is reloaded); handleReset puts hasError, error, errorInfo and
\* showDetails back to their initial values and the children render again;
\* onError, when passed, has been called exactly once for every caught error,
\* with that error.
ErrorBoundaryShowsFallbackUntilReset ==
  /\ [](boundary.hasError => FallbackShown)
  /\ [](boundary.hasError <=> view.shows # "children")
  /\ [](onErrorCalls = IF boundaryProps.onError THEN caught ELSE <<>>)
  /\ [][/\ Len(caught') > Len(caught) =>
             /\ boundary'.hasError
             /\ boundary'.error = caught'[Len(caught')].error
        /\ boundary.hasError /\ ~boundary'.hasError =>
             handleReset \/ handleReload
        /\ handleReset =>
             boundary' = initialState /\ view' = [shows |-> "children"]]_vars

\* the boundary caught a second error after a reset, showed the default
\* screen with its details open, and onError was called for both errors
ErrorBoundaryWitness ==
  /\ boundary.hasError
  /\ boundary.showDetails
  /\ Len(caught) = 2
  /\ caught[1].error # caught[2].error
  /\ boundary.error = caught[2].error
  /\ Len(onErrorCalls) = 2
  /\ view.shows = "default"

(***************************************************************************)
(* Properties of the element store's import and export                     *)
(***************************************************************************)
\* the store's state apart from what the last action handed back
storeState ==
  <<currentProject, elements, rootElementId, selectedElementId,
    draggingElementId, hoveredElementId, history, historyIndex>>

\* the project built from data is missing or does not pass validateProject
Rejected(project) ==
  project = Threw("TypeError") \/ ~validateProject(project).valid

\* C14: importProject(data) never throws; when the project built from data
\* fails validateProject, or building it raises, the whole store state is
\* left as it was; otherwise currentProject and elements are the imported
\* ones, selectedElementId, draggingElementId and hoveredElementId are null
\* and history is exactly one 'importProject' record with historyIndex = 0.
ImportProjectAllOrNothing ==
  [][\A d \in HistoryDocs :
       (outcome'.op = "importProject"
          /\ importProject(d, "project_1", StoreNow)) =>
         LET project == simpleToProject(d, "project_1", StoreNow)
         IN /\ ~outcome'.threw
            /\ IF Rejected(project)
               THEN UNCHANGED storeState
               ELSE /\ currentProject' = project
                    /\ elements' = project.elements.map
                    /\ selectedElementId' = NoId
                    /\ draggingElementId' = NoId
                    /\ hoveredElementId' = NoId
                    /\ history' = <<HistoryRecord("importProject")>>
                    /\ historyIndex' = 0]_vars

\* a document was imported, an element was added to it, and then an import
\* of a rejected document returned and left all of that in place
ImportProjectWitness ==
  /\ outcome = Returned("importProject")
  /\ Len(history) = 2
  /\ history[1] = HistoryRecord("importProject")
  /\ history[2] = HistoryRecord("addElement")
  /\ historyIndex = 1
  /\ "e1" \in DOMAIN elements
  /\ currentProject # Null
  /\ currentProject.id = Str("p1")

\* C15: export followed by import loses nothing: for every project p that
\* passes validateProject, simpleToProject(projectToSimple(p)) equals p in
\* every field, canvas.elements and the elements map included.
ExportImportLossless ==
  (currentProject # Null /\ validateProject(currentProject).valid) =>
    simpleToProject(projectToSimple(currentProject), "project_1", StoreNow)
      = currentProject

\* the same without the canvas' list of element ids
ExportImportKeepsTheRest ==
  (currentProject # Null /\ validateProject(currentProject).valid) =>
    LET back == simpleToProject(projectToSimple(currentProject), "project_1",
                                StoreNow)
    IN [back EXCEPT !.canvas.elements = Undefined]
         = [currentProject EXCEPT !.canvas.elements = Undefined]

(***************************************************************************)
(* Properties of the colour utilities (SpecColor)                          *)
(***************************************************************************)
IsHexDigits(s) == \A i \in DOMAIN s : s[i] \in DOMAIN hexDigit

\* #RRGGBB and #RGB
LongForm(s) == Len(s) = 7 /\ s[1] = "#" /\ IsHexDigits(Tail(s))
ShortForm(s) == Len(s) = 4 /\ s[1] = "#" /\ IsHexDigits(Tail(s))

\* C16: hexToRgb returns the RGB object of a string of the form #RRGGBB or
\* #RGB (every digit of the short form counts twice) and throws 'Invalid hex
\* color' only for strings of neither form.
HexToRgbAcceptsBothForms ==
  rgb # NoResult =>
    /\ LongForm(hex) =>
         rgb = RGB(16 * hexDigit[hex[2]] + hexDigit[hex[3]],
                   16 * hexDigit[hex[4]] + hexDigit[hex[5]],
                   16 * hexDigit[hex[6]] + hexDigit[hex[7]])
    /\ ShortForm(hex) =>
         rgb = RGB(17 * hexDigit[hex[2]], 17 * hexDigit[hex[3]],
                   17 * hexDigit[hex[4]])
    /\ rgb = Threw("Invalid hex color") =>
         ~LongForm(hex) /\ ~ShortForm(hex)

\* the same for the long form alone
HexToRgbAcceptsLongForm ==
  rgb # NoResult =>
    /\ LongForm(hex) =>
         rgb = RGB(16 * hexDigit[hex[2]] + hexDigit[hex[3]],
                   16 * hexDigit[hex[4]] + hexDigit[hex[5]],
                   16 * hexDigit[hex[6]] + hexDigit[hex[7]])
    /\ rgb = Threw("Invalid hex color") => ~LongForm(hex)

(***************************************************************************)
(* Properties of the element store's history (SpecHistory)                 *)
(***************************************************************************)
\* history and historyIndex after one new record of the type: the records
\* after the previous historyIndex are gone, the new one is last
OneRecordMore(type) ==
  /\ history' =
       Append(SubSeq(history, 1, historyIndex + 1), HistoryRecord(type))
  /\ historyIndex' = Len(history') - 1

\* C17: every addElement and batchUpdate, and every updateElement,
\* deleteElement and moveElement that finds its target element, leaves
\* history with exactly one new record of the action's type as its last
\* entry, historyIndex pointing at it, and the records after the previous
\* historyIndex discarded.
RecordedActionsLeaveOneRecord ==
  [][/\ \A id \in StoreIds, parent \in {NoId, "e1"} :
          addElement(NewElement(id), parent, "element_1", StoreNow) =>
            OneRecordMore("addElement")
     /\ batchUpdate([id \in {"e1"} |-> Rename], StoreNow) =>
          OneRecordMore("batchUpdate")
     /\ \A id \in StoreIds \cap DOMAIN elements :
          /\ updateElement(id, Rename, StoreNow) =>
               OneRecordMore("updateElement")
          /\ deleteElement(id, StoreNow) => OneRecordMore("deleteElement")
     /\ ({"e1", "e2"} \subseteq DOMAIN elements
           /\ moveElement("e2", "e1", Absent, StoreNow)) =>
          OneRecordMore("moveElement")]_vars

\* the same for the two actions that call addHistory after their set()
AddAndBatchLeaveOneRecord ==
  [][/\ \A id \in StoreIds, parent \in {NoId, "e1"} :
          addElement(NewElement(id), parent, "element_1", StoreNow) =>
            OneRecordMore("addElement")
     /\ batchUpdate([id \in {"e1"} |-> Rename], StoreNow) =>
          OneRecordMore("batchUpdate")]_vars

\* C18: in every reachable state -1 <= historyIndex <= history.length - 1
\* and history.length <= 100; a record that would make the history longer
\* than 100 pushes the oldest record out and historyIndex points at the
\* newest record.
HistoryIndexInRange ==
  /\ [](/\ -1 <= historyIndex
        /\ historyIndex <= Len(history) - 1
        /\ Len(history) <= 100)
  /\ [][\A type \in HistoryTypes :
          (/\ storeAddHistory(type)
           /\ Len(history) = 100
           /\ historyIndex = 99) =>
            /\ history' = Append(Tail(history), HistoryRecord(type))
            /\ historyIndex' = 99]_vars

\* a full history whose marker has moved down one place: the record before
\* last is the marker that was last when the history had 100 records
HistoryFullWitness ==
  /\ Len(history) = 100
  /\ historyIndex = 99
  /\ history[99] = HistoryRecord("marker")
  /\ history[100] = HistoryRecord("custom")
  /\ outcome = Returned("addHistory")

\* C19: undo and redo change nothing but historyIndex: undo takes one off
\* when historyIndex >= 0, redo adds one when historyIndex is below
\* history.length - 1, and otherwise they do nothing; history, elements,
\* currentProject, rootElementId and the selection stay as they are, and a
\* redo after an undo from historyIndex >= 0 leads back.
UndoRedoMoveOnlyTheIndex ==
  [][/\ undo =>
          /\ historyIndex' = IF historyIndex >= 0 THEN historyIndex - 1
                              ELSE historyIndex
          /\ UNCHANGED <<history, elements, currentProject, rootElementId,
                         selectedElementId, draggingElementId,
                         hoveredElementId>>
          /\ historyIndex >= 0 =>
               /\ historyIndex' < Len(history') - 1
               /\ historyIndex' + 1 = historyIndex
     /\ redo =>
          /\ historyIndex' = IF historyIndex < Len(history) - 1
                              THEN historyIndex + 1 ELSE historyIndex
          /\ UNCHANGED <<history, elements, currentProject, rootElementId,
                         selectedElementId, draggingElementId,
                         hoveredElementId>>]_vars

\* redo has just led back to the last of three records, on a store with a
\* project and two elements
UndoRedoWitness ==
  /\ outcome = Returned("redo")
  /\ Len(history) = 3
  /\ historyIndex = 2
  /\ currentProject # Null
  /\ DOMAIN elements = {"e1", "e2"}

(***************************************************************************)
(* Properties of the element store's parent and child ids (SpecLinks)      *)
(***************************************************************************)
\* C20: after any addElement, moveElement, duplicateElement and
\* deleteElement calls on an empty store, every id in an element's
\* childrenIds is a key of elements whose parentId is that element and is in
\* the list once, and every element whose parentId names an existing
\* element is in that element's childrenIds.
ParentAndChildIdsAgree ==
  /\ \A p \in DOMAIN elements :
       LET list == childrenOf(elements, p)
       IN \A i \in DOMAIN list :
            /\ list[i] \in DOMAIN elements
            /\ elements[list[i]].parentId = Some(p)
            /\ \A j \in DOMAIN list : list[j] = list[i] => j = i
  /\ \A c \in DOMAIN elements :
       LET parentId == elements[c].parentId
       IN (parentId.def /\ parentId.v \in DOMAIN elements) =>
            \E i \in DOMAIN childrenOf(elements, parentId.v) :
              childrenOf(elements, parentId.v)[i] = c

\* the element that parentId names, where there is one
HasParent(els, id) == els[id].parentId.def /\ els[id].parentId.v \in DOMAIN els

\* target is met on the way up from id within the given number of steps
RECURSIVE Above(_, _, _, _)
Above(els, id, target, steps) ==
  /\ steps > 0
  /\ HasParent(els, id)
  /\ \/ els[id].parentId.v = target
     \/ Above(els, els[id].parentId.v, target, steps - 1)

\* C21: after any addElement, moveElement, duplicateElement and
\* deleteElement calls the parentId relation has no cycle: no element is its
\* own parent or its own ancestor (so that the walks of getElementPath,
\* getElementTree and deleteElement come to an end).
ParentIdAcyclic ==
  \A id \in DOMAIN elements :
    ~Above(elements, id, id, Cardinality(DOMAIN elements))

\* id and the elements below it, by their parentId
Subtree(els, id) ==
  {k \in DOMAIN els : k = id \/ Above(els, k, id, Cardinality(DOMAIN els))}

\* C22: on a store whose tree is consistent and acyclic deleteElement(id)
\* takes id and all its descendants out of elements and id out of its
\* parent's childrenIds; every other element is as before, rootElementId
\* becomes null iff id was the root, and for an unknown id the store is left
\* as it was.
DeleteElementRemovesSubtree ==
  [][\A id \in LinkIds :
       (/\ outcome'.op = "deleteElement"
        /\ ParentAndChildIdsAgree
        /\ ParentIdAcyclic
        /\ deleteElement(id, StoreNow)) =>
         /\ ~outcome'.threw
         /\ IF id \notin DOMAIN elements THEN UNCHANGED storeState
            ELSE /\ DOMAIN elements' = DOMAIN elements \ Subtree(elements, id)
                 /\ \A k \in DOMAIN elements' :
                      IF elements[id].parentId = Some(k)
                      THEN /\ elements'[k] =
                                [elements[k] EXCEPT !.childrenIds =
                                   Some(SelectSeq(@.v, LAMBDA c : c # id))]
                      ELSE elements'[k] = elements[k]
                 /\ rootElementId' = IF id = rootElementId THEN NoId
                                     ELSE rootElementId]_vars

\* an element with an element below it was deleted from under the root: of
\* three elements the root is left, with an empty list of children
DeleteElementWitness ==
  /\ outcome = Returned("deleteElement")
  /\ Len(history) = 3
  /\ DOMAIN elements = {"e1"}
  /\ rootElementId = "e1"
  /\ elements["e1"].childrenIds = Some(<<>>)
  /\ ~elements["e1"].parentId.def

\* C23 and C24 are judged on the store's selection actions
Present(id) == id = NoId \/ id \in DOMAIN elements

\* C23: in every reachable state of the element store selectedElementId,
\* hoveredElementId and draggingElementId are each null or the id of an
\* element that is in elements
SelectionIdsPresent ==
  /\ Present(selectedElementId)
  /\ Present(hoveredElementId)
  /\ Present(draggingElementId)


\* the elements whose state.selected is true
selectedOnes ==
  {k \in DOMAIN elements :
     elements[k].state \notin {Undefined, Null} /\ elements[k].state.selected}

\* C24: in every state that addElement, duplicateElement, selectElement,
\* clearSelection and deleteElement reach, at most one element has
\* state.selected = true, and its id is selectedElementId
SelectionIsSingle ==
  /\ Cardinality(selectedOnes) <= 1
  /\ \A k \in selectedOnes : k = selectedElementId

\* C25: after createProject() the first addElement(e) without a parentId
\* leaves rootElementId = e.id, and getElementTree() returns the tree whose
\* root is e
FirstElementBecomesRoot ==
  [][\A id \in StoreIds :
       (/\ outcome = Returned("createProject")
        /\ outcome' = Returned("addElement")
        /\ addElement(OwnElement(id), NoId, "element_1", StoreNow))
       => /\ rootElementId' = id
          /\ \E tree \in {elementTree(elements', rootElementId', NoId)} :
               /\ tree.ok /\ ~tree.none
               /\ tree.node.element = elements'[id]]_vars

\* the same addElement on a store that has no root and no project
RootlessFirstElementBecomesRoot ==
  [][\A id \in StoreIds :
       (/\ rootElementId = NoId
        /\ outcome' = Returned("addElement")
        /\ addElement(OwnElement(id), NoId, "element_1", StoreNow))
       => /\ rootElementId' = id
          /\ \E tree \in {elementTree(elements', rootElementId', NoId)} :
               /\ tree.ok /\ ~tree.none
               /\ tree.node.element = elements'[id]]_vars

\* the subtrees of a and b have the same shape: the same type at the top,
\* as many children, and the children alike one by one in their order
RECURSIVE SameShape(_, _, _)
SameShape(els, a, b) ==
  /\ els[a].type = els[b].type
  /\ Len(childrenOf(els, a)) = Len(childrenOf(els, b))
  /\ \A i \in DOMAIN childrenOf(els, a) :
       /\ els[childrenOf(els, b)[i]].parentId = Some(b)
       /\ SameShape(els, childrenOf(els, a)[i], childrenOf(els, b)[i])

\* what C26 says of one duplicateElement(id) call
CopiesSubtree(id) ==
  IF id \notin DOMAIN elements THEN UNCHANGED storeState
  ELSE /\ ~outcome'.threw
       /\ LET new == DOMAIN elements' \ DOMAIN elements
              parentId == elements[id].parentId
          IN /\ DOMAIN elements \subseteq DOMAIN elements'
             /\ Cardinality(new) = Cardinality(Subtree(elements, id))
             /\ \A k \in Subtree(elements, id) : elements'[k] = elements[k]
             /\ \E copy \in new :
                  /\ elements'[copy].parentId = parentId
                  /\ new = Subtree(elements', copy)
                  /\ SameShape(elements', id, copy)
                  /\ HasParent(elements, id) =>
                       elements'[parentId.v].childrenIds =
                         Some(Append(childrenOf(elements, parentId.v), copy))

\* C26: duplicateElement(id) of an existing element adds a copy of its
\* subtree: the same shape, types and child order under ids that were not
\* in the store, the copy's root with the parentId of the original and last
\* in that parent's childrenIds, and the original subtree as it was; for an
\* unknown id the store is left as it was.
DuplicateElementCopiesSubtree ==
  [][\A id \in CopyTargets :
       (/\ outcome'.op = "duplicateElement"
        /\ duplicateElement(id, CopyDuplicateIds(elements), StoreNow))
       => CopiesSubtree(id)]_vars

\* the same on the stores whose parent and child ids agree and have no
\* cycle
DuplicateElementCopiesTree ==
  [][\A id \in CopyTargets :
       (/\ outcome'.op = "duplicateElement"
        /\ ParentAndChildIdsAgree
        /\ ParentIdAcyclic
        /\ duplicateElement(id, CopyDuplicateIds(elements), StoreNow))
       => CopiesSubtree(id)]_vars

\* an element with two children of different types was copied: the copy of
\* the container holds a text and an image, in that order
DuplicateElementWitness ==
  /\ outcome = Returned("duplicateElement")
  /\ DOMAIN elements = CopyIds \cup {"d1", "d2", "d3"}
  /\ childrenOf(elements, "e1") = <<"e2", "e3">>
  /\ \E copy \in {"d1", "d2", "d3"} :
       /\ elements[copy].type = "container"
       /\ Len(childrenOf(elements, copy)) = 2
       /\ elements[childrenOf(elements, copy)[1]].type = "text"
       /\ elements[childrenOf(elements, copy)[2]].type = "image"

(***************************************************************************)
(* Properties of concurrent loadWorklet calls (SpecRacing)                 *)
(***************************************************************************)
\* C27: under any interleaving of concurrent loadWorklet / loadWorklets
\* calls addModule succeeds at most once per worklet type between resets
\* (it never resolves for a type that is in loadedWorklets), and a type
\* whose status is 'loaded' does not go to 'loading' or 'error' unless the
\* registry is reset.
LoadedOnceAndForGood ==
  [][/\ \A k \in Callers :
          addModuleResolves(k) => top(chainOf(k)).type \notin loadedWorklets
     /\ \A t \in WorkletTypes :
          status[t] = "loaded" => status'[t] \in {"loaded", "pending"}]_vars

\* what holds of the race: a type that is 'loaded' never goes back to
\* 'loading'
LoadedNeverLoading ==
  [][\A t \in WorkletTypes :
       status[t] = "loaded" => status'[t] # "loading"]_vars

Spec == SpecTree
====
